---- MODULE Spec2Model ----
(***************************************************************************)
(* Vehicle inventory and sales API: the validation layer (models.py), the  *)
(* persistence layer (repository.py, database.py) and the request handlers *)
(* (autos.py, ventas.py), as a state machine over the two stored tables.   *)
(*                                                                         *)
(* Text is a sequence of one-character strings, so that upper(), strip(),  *)
(* title() and the substring tests of handle_database_error are computed.  *)
(* Prices are integers in thousandths of the currency unit.                *)
(* An Optional value is <<>> (None) or <<v>> (a value v).                  *)
(* A datetime is [instante, tzinfo]: an instant of the clock and "None"    *)
(* (naive) or "UTC" (aware).                                               *)
(***************************************************************************)
EXTENDS Integers, Sequences, FiniteSets, TLC

\* ------------------------------------------------------------------ bounds
\* Values the auto.id sequence may hand out.
MaxAutoId == 2
\* Values the venta.id sequence may hand out.
MaxVentaId == 1
\* Last tick of the wall clock.
MaxAhora == 1

\* ------------------------------------------------------- program constants
\* ge=1900 of the year field.
AnioMinimo == 1900
\* datetime.now().year, evaluated once when models.py is imported.
AnioImportacion == 2024
\* min_length of numero_chasis.
ChasisMinLen == 5
\* max_length of numero_chasis.
ChasisMaxLen == 30
\* min_length / max_length of marca and modelo.
TextoMinLen == 1
TextoMaxLen == 50
\* min_length / max_length of nombre_comprador.
NombreMinLen == 2
NombreMaxLen == 100

VARIABLES
    autos,      \* table auto: id -> [marca, modelo, anio, numero_chasis]
    ventas,     \* table venta: id -> [nombre_comprador, precio, fecha_venta, auto_id]
    seqAuto,    \* last value handed out by the auto.id sequence
    seqVenta,   \* last value handed out by the venta.id sequence
    ahora,      \* datetime.now()
    respuesta,  \* the last request and the response it got
    proc        \* requests in progress, one per concurrent worker

vars == <<autos, ventas, seqAuto, seqVenta, ahora, respuesta, proc>>

\* -------------------------------------------------------------------- text
Minusculas == <<"a","b","c","d","e","f","g","h","i","j","k","l","m",
                "n","o","p","q","r","s","t","u","v","w","x","y","z">>
Mayusculas == <<"A","B","C","D","E","F","G","H","I","J","K","L","M",
                "N","O","P","Q","R","S","T","U","V","W","X","Y","Z">>
Digitos == <<"0","1","2","3","4","5","6","7","8","9">>

Elementos(s) == {s[i] : i \in 1..Len(s)}
LetrasMinusculas == Elementos(Minusculas)
LetrasMayusculas == Elementos(Mayusculas)
Cifras == Elementos(Digitos)
\* The upper-case and the lower-case form of each letter
EnMayuscula ==
    [c \in LetrasMinusculas |->
        Mayusculas[CHOOSE i \in 1..Len(Minusculas) : Minusculas[i] = c]]
EnMinuscula ==
    [c \in LetrasMayusculas |->
        Minusculas[CHOOSE i \in 1..Len(Mayusculas) : Mayusculas[i] = c]]

islower(c) == c \in LetrasMinusculas
isupper(c) == c \in LetrasMayusculas
isdigit(c) == c \in Cifras
isspace(c) == c \in {" ", "\t", "\n"}

upper_char(c) == IF islower(c) THEN EnMayuscula[c] ELSE c
lower_char(c) == IF isupper(c) THEN EnMinuscula[c] ELSE c

\* str.upper()
upper(s) == [i \in 1..Len(s) |-> upper_char(s[i])]
\* str.lower()
lower(s) == [i \in 1..Len(s) |-> lower_char(s[i])]

\* str.strip()
strip(s) ==
    LET keep == {i \in 1..Len(s) : ~isspace(s[i])}
        lo == CHOOSE i \in keep : \A j \in keep : i <= j
        hi == CHOOSE i \in keep : \A j \in keep : j <= i
    IN  IF keep = {} THEN <<>> ELSE SubSeq(s, lo, hi)

\* str.title(): a cased character is lowered after a cased character and
\* raised anywhere else.
title(s) ==
    [i \in 1..Len(s) |->
        IF i > 1 /\ (islower(s[i-1]) \/ isupper(s[i-1]))
        THEN lower_char(s[i]) ELSE upper_char(s[i])]

\* pat in s
Contains(s, pat) ==
    \E i \in 0..(Len(s) - Len(pat)) : \A j \in 1..Len(pat) : s[i + j] = pat[j]

\* re.match(r'^[A-Za-z0-9]+$', s): $ also matches before one final newline.
re_match_alnum(s) ==
    LET body == IF Len(s) > 0 /\ s[Len(s)] = "\n"
                THEN SubSeq(s, 1, Len(s) - 1) ELSE s
    IN  /\ Len(body) > 0
        /\ \A i \in 1..Len(body) :
              islower(body[i]) \/ isupper(body[i]) \/ isdigit(body[i])

RECURSIVE str_int(_)
\* str(n) of a natural number
str_int(n) ==
    IF n < 10 THEN <<Digitos[n + 1]>>
    ELSE str_int(n \div 10) \o <<Digitos[(n % 10) + 1]>>

\* Optional values
None == <<>>
Some(v) == <<v>>
Val(o) == o[1]

\* ------------------------------------------------------------ database.py
PatConnection == <<"c","o","n","n","e","c","t","i","o","n">>
PatUnique == <<"u","n","i","q","u","e">>
PatDuplicate == <<"d","u","p","l","i","c","a","t","e">>
PatForeignKey == <<"f","o","r","e","i","g","n"," ","k","e","y">>

\* The class of the exception handle_database_error returns for an exception
\* whose str() is msg.
handle_database_error(msg) ==
    LET mensaje_error == lower(msg)
    IN  IF Contains(mensaje_error, PatConnection) THEN "ConnectionError"
        ELSE IF Contains(mensaje_error, PatUnique)
                \/ Contains(mensaje_error, PatDuplicate) THEN "IntegrityError"
        ELSE IF Contains(mensaje_error, PatForeignKey) THEN "IntegrityError"
        ELSE "DatabaseError"

PrefijoConexion == <<"E","r","r","o","r"," ","d","e"," ","c","o","n","e","x","i","o","n"," ","a"," ","b","a","s","e"," ","d","e"," ","d","a","t","o","s",":"," ">>
PrefijoUnica == <<"V","i","o","l","a","c","i","o","n"," ","d","e"," ","r","e","s","t","r","i","c","c","i","o","n"," ","u","n","i","c","a",":"," ">>
PrefijoForanea == <<"V","i","o","l","a","c","i","o","n"," ","d","e"," ","c","l","a","v","e"," ","f","o","r","a","n","e","a",":"," ">>
PrefijoBase == <<"E","r","r","o","r"," ","d","e"," ","b","a","s","e"," ","d","e"," ","d","a","t","o","s",":"," ">>

\* handle_database_error returning an exception without message
mensaje_vacio(msg) == <<>>

\* str() of the exception handle_database_error returns for an exception
\* whose str() is msg: a prefix and the message in lower case.
mensaje_handled(msg) ==
    LET mensaje_error == lower(msg)
    IN  IF Contains(mensaje_error, PatConnection)
        THEN PrefijoConexion \o mensaje_error
        ELSE IF Contains(mensaje_error, PatUnique)
                \/ Contains(mensaje_error, PatDuplicate)
        THEN PrefijoUnica \o mensaje_error
        ELSE IF Contains(mensaje_error, PatForeignKey)
        THEN PrefijoForanea \o mensaje_error
        ELSE PrefijoBase \o mensaje_error

\* ------------------------------------------------- messages of exceptions
MsgYaExiste == <<"Y","a"," ","e","x","i","s","t","e"," ","u","n"," ","v","e","h","i","c","u","l","o"," ","c","o","n"," ","e","l"," ","n","u","m","e","r","o"," ","d","e"," ","c","h","a","s","i","s",":"," ">>
MsgNoSePuede1 == <<"N","o"," ","s","e"," ","p","u","e","d","e"," ","e","l","i","m","i","n","a","r"," ","e","l"," ","v","e","h","i","c","u","l","o"," ","p","o","r","q","u","e"," ","t","i","e","n","e"," ">>
MsgNoSePuede2 == <<" ","v","e","n","t","a","(","s",")"," ","a","s","o","c","i","a","d","a","(","s",")">>
MsgNoExiste == <<"N","o"," ","e","x","i","s","t","e"," ","u","n"," ","v","e","h","i","c","u","l","o"," ","c","o","n"," ","I","D",":"," ">>
\* str() of the driver's error for a violated foreign key of table venta
MsgFK == <<"i","n","s","e","r","t"," ","o","r"," ","u","p","d","a","t","e"," ","o","n"," ","t","a","b","l","e"," ","\"","v","e","n","t","a","\""," ","v","i","o","l","a","t","e","s"," ","f","o","r","e","i","g","n"," ","k","e","y"," ","c","o","n","s","t","r","a","i","n","t"," ","\"","v","e","n","t","a","_","a","u","t","o","_","i","d","_","f","k","e","y","\"">>
\* str() of the driver's error for a NULL in a NOT NULL column
MsgNotNull == <<"v","i","o","l","a","t","e","s"," ","n","o","t","-","n","u","l","l"," ","c","o","n","s","t","r","a","i","n","t">>
\* str() of the driver's error for a connection the server closed
MsgConexion == <<"s","e","r","v","e","r"," ","c","l","o","s","e","d"," ","t","h","e"," ","c","o","n","n","e","c","t","i","o","n"," ","u","n","e","x","p","e","c","t","e","d","l","y">>
\* str() of the driver's error for a deleted row that a foreign key references
MsgFKAuto == <<"u","p","d","a","t","e"," ","o","r"," ","d","e","l","e","t","e"," ","o","n"," ","t","a","b","l","e"," ","\"","a","u","t","o","\""," ","v","i","o","l","a","t","e","s"," ","f","o","r","e","i","g","n"," ","k","e","y"," ","c","o","n","s","t","r","a","i","n","t"," ","\"","v","e","n","t","a","_","a","u","t","o","_","i","d","_","f","k","e","y","\""," ","o","n"," ","t","a","b","l","e"," ","\"","v","e","n","t","a","\"">>
\* str() of the error of a DELETE that finds its row gone
MsgStale == <<"D","E","L","E","T","E"," ","s","t","a","t","e","m","e","n","t"," ","o","n"," ","t","a","b","l","e"," ","'","a","u","t","o","'"," ","e","x","p","e","c","t","e","d"," ","t","o"," ","d","e","l","e","t","e"," ","1"," ","r","o","w","(","s",")",";"," ","0"," ","w","e","r","e"," ","m","a","t","c","h","e","d",".">>

\* str() of a pydantic ValidationError
MsgValidation == <<"v","a","l","i","d","a","t","i","o","n"," ","e","r","r","o","r">>

\* -------------------------------------------------------------- models.py
\* The outcome of validating a value: accepted with the value to keep, or a
\* ValueError / constraint failure.
Ok(v) == [ok |-> TRUE, valor |-> <<v>>, excepcion |-> "ninguna"]
Err == [ok |-> FALSE, valor |-> <<>>, excepcion |-> "ValidationError"]
\* A validator raised an exception that is neither ValueError nor
\* AssertionError: it is no validation error, it propagates.
ErrTipo == [ok |-> FALSE, valor |-> <<>>, excepcion |-> "TypeError"]

\* AutoBase.validar_chasis
validar_chasis(valor) ==
    IF ~re_match_alnum(valor) THEN Err ELSE Ok(upper(valor))

\* limpiar_texto without title()
limpiar_texto_sin_title(valor) == Ok(strip(valor))

\* AutoBase.limpiar_texto
limpiar_texto(valor) == Ok(title(strip(valor)))

\* Field(min_length=1, max_length=50) of marca and modelo, then the validator
AutoBase_texto(valor) ==
    IF Len(valor) < TextoMinLen \/ Len(valor) > TextoMaxLen THEN Err
    ELSE limpiar_texto(valor)

\* Field(ge=1900, le=datetime.now().year) of the year
AutoBase_anio(valor) ==
    IF valor < AnioMinimo \/ valor > AnioImportacion THEN Err ELSE Ok(valor)

\* Field(min_length=5, max_length=30) of numero_chasis, then the validator
AutoBase_numero_chasis(valor) ==
    IF Len(valor) < ChasisMinLen \/ Len(valor) > ChasisMaxLen THEN Err
    ELSE validar_chasis(valor)

\* Validation of a whole AutoBase (AutoCreate, Auto) object.
AutoBase(p) ==
    LET marca == AutoBase_texto(p.marca)
        modelo == AutoBase_texto(p.modelo)
        anio == AutoBase_anio(p.anio)
        numero_chasis == AutoBase_numero_chasis(p.numero_chasis)
    IN  IF marca.ok /\ modelo.ok /\ anio.ok /\ numero_chasis.ok
        THEN Ok([marca |-> Val(marca.valor), modelo |-> Val(modelo.valor),
                 anio |-> Val(anio.valor),
                 numero_chasis |-> Val(numero_chasis.valor)])
        ELSE Err

\* Validation of one supplied field of an AutoUpdate: None is accepted and
\* kept, a value is checked and normalized as in AutoBase.
AutoUpdate_campo(campo, o) ==
    IF o = None THEN Ok(None)
    ELSE LET r == CASE campo = "marca" -> AutoBase_texto(Val(o))
                    [] campo = "modelo" -> AutoBase_texto(Val(o))
                    [] campo = "anio" -> AutoBase_anio(Val(o))
                    [] campo = "numero_chasis" -> AutoBase_numero_chasis(Val(o))
         IN  IF r.ok THEN Ok(r.valor) ELSE Err

\* Validation of an AutoUpdate: the fields in DOMAIN patch are the ones set.
AutoUpdate(patch) ==
    LET r == [f \in DOMAIN patch |-> AutoUpdate_campo(f, patch[f])]
    IN  IF \A f \in DOMAIN patch : r[f].ok
        THEN Ok([f \in DOMAIN patch |-> Val(r[f].valor)])
        ELSE Err

\* A price cut, not rounded, to 2 decimal places
round2_truncado(valor) == (valor \div 10) * 10

\* round(valor, 2) of a price in thousandths whose last digit is not 5 (a
\* decimal ending in 5 thousandths is no exact double; Python rounds the
\* double, to either side).
round2(valor) == ((valor + 5) \div 10) * 10

\* VentaBase.validar_precio behind Field(gt=0)
validar_precio(valor) ==
    IF valor <= 0 THEN Err ELSE Ok(round2(valor))

\* datetime.now(): the naive local time.
datetime_now(now) == [instante |-> now, tzinfo |-> "None"]

\* VentaBase.validar_fecha: valor > datetime.now() raises TypeError when valor
\* is aware, datetime.now() being naive.
validar_fecha(valor, now) ==
    IF valor.tzinfo # datetime_now(now).tzinfo THEN ErrTipo
    ELSE IF valor.instante > datetime_now(now).instante THEN Err
    ELSE Ok(valor)

\* VentaBase.limpiar_nombre
limpiar_nombre(valor) ==
    LET nombre_normalizado == strip(valor)
    IN  IF nombre_normalizado = <<>> THEN Err
        ELSE Ok(title(nombre_normalizado))

\* Field(min_length=2, max_length=100) of nombre_comprador, then the validator
VentaBase_nombre_comprador(valor) ==
    IF Len(valor) < NombreMinLen \/ Len(valor) > NombreMaxLen THEN Err
    ELSE limpiar_nombre(valor)

\* Validation of a whole VentaBase (VentaCreate, Venta) object at time now.
VentaBase(p, now) ==
    LET nombre == VentaBase_nombre_comprador(p.nombre_comprador)
        precio == validar_precio(p.precio)
        fecha == validar_fecha(p.fecha_venta, now)
    IN  IF fecha.excepcion = "TypeError" THEN ErrTipo
        ELSE IF nombre.ok /\ precio.ok /\ fecha.ok
        THEN Ok([nombre_comprador |-> Val(nombre.valor),
                 precio |-> Val(precio.valor),
                 fecha_venta |-> Val(fecha.valor),
                 auto_id |-> p.auto_id])
        ELSE Err

\* Validation of one supplied field of a VentaUpdate.
VentaUpdate_campo(campo, o, now) ==
    IF o = None THEN Ok(None)
    ELSE LET r == CASE campo = "nombre_comprador" ->
                           VentaBase_nombre_comprador(Val(o))
                    [] campo = "precio" -> validar_precio(Val(o))
                    [] campo = "fecha_venta" -> validar_fecha(Val(o), now)
                    [] campo = "auto_id" -> Ok(Val(o))
         IN  IF r.ok THEN Ok(r.valor) ELSE r

\* Validation of a VentaUpdate: the fields in DOMAIN patch are the ones set.
VentaUpdate(patch, now) ==
    LET r == [f \in DOMAIN patch |-> VentaUpdate_campo(f, patch[f], now)]
    IN  IF \E f \in DOMAIN patch : r[f].excepcion = "TypeError" THEN ErrTipo
        ELSE IF \A f \in DOMAIN patch : r[f].ok
        THEN Ok([f \in DOMAIN patch |-> Val(r[f].valor)])
        ELSE Err

\* ------------------------------------------------------- request inputs
ChasisEntradas ==
    { <<"a","b","1","2","3">>, <<"A","B","1","2","3">>,
      <<"u","n","i","q","u","e">>, <<"a","b","-","1","2">> }
MarcaEntradas == { <<" ","f","I","A","T">>, <<"b","m","w">> }
ModeloEntradas == { <<"x","5">> }
AnioEntradas == { AnioMinimo - 1, AnioImportacion, AnioImportacion + 1 }
NombreEntradas == { <<" ","a","n","a"," ">> }
PrecioEntradas == { -1000, 0, 4, 19999 }
FechaEntradas ==
    { [instante |-> 1, tzinfo |-> "None"],
      [instante |-> MaxAhora + 1, tzinfo |-> "None"],
      [instante |-> 0, tzinfo |-> "UTC"] }
AutoIdEntradas == 0..MaxAutoId

Opcional(S) == {None} \cup {Some(v) : v \in S}

\* Bodies of POST /autos/
AutoCreateEntradas ==
    [marca : MarcaEntradas, modelo : ModeloEntradas,
     anio : AnioEntradas, numero_chasis : ChasisEntradas]

\* Bodies of PUT /autos/{auto_id}: the fields present are the ones set.
AutoUpdateEntradas ==
    {[f \in {} |-> None]}
    \cup {[marca |-> o] : o \in Opcional(MarcaEntradas)}
    \cup {[modelo |-> o] : o \in Opcional(ModeloEntradas)}
    \cup {[anio |-> o] : o \in Opcional(AnioEntradas)}
    \cup {[numero_chasis |-> o] : o \in Opcional(ChasisEntradas)}
    \cup {[marca |-> Some(m), numero_chasis |-> Some(c)] :
             m \in MarcaEntradas, c \in ChasisEntradas}

\* Bodies of POST /ventas/: the ones that differ in one field from a body
\* with price 19.999, sale date 1 and vehicle 1.
VentaCreateEntradas ==
    {e \in [nombre_comprador : NombreEntradas, precio : PrecioEntradas,
            fecha_venta : FechaEntradas, auto_id : AutoIdEntradas] :
        Cardinality({f \in {"precio", "fecha_venta", "auto_id"} :
            e[f] # [precio |-> 19999,
                    fecha_venta |-> [instante |-> 1, tzinfo |-> "None"],
                    auto_id |-> 1][f]}) <= 1}

\* Bodies of PUT /ventas/{venta_id}
VentaUpdateEntradas ==
    {[f \in {} |-> None]}
    \cup {[nombre_comprador |-> o] : o \in Opcional(NombreEntradas)}
    \cup {[precio |-> o] : o \in Opcional(PrecioEntradas)}
    \cup {[fecha_venta |-> o] : o \in Opcional(FechaEntradas)}
    \cup {[auto_id |-> o] : o \in Opcional(AutoIdEntradas)}
    \cup {[precio |-> Some(q), auto_id |-> Some(a)] :
             q \in {4, 19999}, a \in AutoIdEntradas}

\* Every str(error) a repository method can hand to handle_database_error
\* within the inputs above, and the class it is turned into (computed once).
MensajesDeError ==
    {MsgYaExiste \o Val(validar_chasis(c).valor) :
        c \in {x \in ChasisEntradas : validar_chasis(x).ok}}
    \cup {MsgNoSePuede1 \o str_int(n) \o MsgNoSePuede2 : n \in 1..MaxVentaId}
    \cup {MsgNoExiste \o str_int(i) : i \in AutoIdEntradas}
    \cup {MsgFK, MsgNotNull, MsgValidation, MsgConexion, MsgFKAuto, MsgStale}
ClaseDeError == [m \in MensajesDeError |-> handle_database_error(m)]
MensajeDeError == [m \in MensajesDeError |-> mensaje_handled(m)]

\* raise handle_database_error(error) in the except clauses of a repository
\* method, for an error whose str() is msg: the class of what is raised.
raise_handled(msg) == ClaseDeError[msg]
\* str() of what is raised.
str_handled(msg) == MensajeDeError[msg]

\* The request bodies as validated by the framework before the handler runs.
AutoCreateValidado == [e \in AutoCreateEntradas |-> AutoBase(e)]
AutoUpdateValidado == [e \in AutoUpdateEntradas |-> AutoUpdate(e)]
VentaCreateValidado ==
    [e \in VentaCreateEntradas |-> [t \in 0..MaxAhora |-> VentaBase(e, t)]]
VentaUpdateValidado ==
    [e \in VentaUpdateEntradas |-> [t \in 0..MaxAhora |-> VentaUpdate(e, t)]]

\* ---------------------------------------------------------- the database
\* What the tables declare (models.py): every column of Auto and Venta is
\* NOT NULL, venta.auto_id is a foreign key to auto.id, and no column but the
\* primary keys is declared unique.

\* session.exec(...).first(): any one of the selected rows, 0 (None) when
\* nothing is selected.
first(filas) == IF filas = {} THEN {0} ELSE filas

\* A row after setattr of every supplied field of a validated patch; a field
\* the patch sets to None holds None.
setattr_campos(fila, datos) ==
    [f \in DOMAIN fila |->
        IF f \in DOMAIN datos THEN datos[f] ELSE Some(fila[f])]

\* A row object holds None in some column.
tiene_null(objeto) == \E f \in DOMAIN objeto : objeto[f] = None

\* The stored row of a row object without None.
fila_de(objeto) == [f \in DOMAIN objeto |-> Val(objeto[f])]

\* A schema whose venta.auto_id is no foreign key
fk_auto_sin_restriccion(tautos, fila_venta) == TRUE

\* The foreign key venta.auto_id -> auto.id holds for a venta row.
fk_auto(tautos, fila_venta) == fila_venta.auto_id \in DOMAIN tautos

\* The outcomes of a repository call: the tables and sequences it leaves,
\* and what it returns or raises.
Resultado(estado, clase, mensaje, id, ta, tv, sa, sv) ==
    [estado |-> estado, clase |-> clase, mensaje |-> mensaje, id |-> id,
     autos |-> ta, ventas |-> tv, seqAuto |-> sa, seqVenta |-> sv]

\* -------------------------------------------------- repository.py: autos
\* get_by_id that finds no row
Auto_get_by_id_ninguno(tautos, auto_id) == {0}

\* AutoRepository.get_by_id
Auto_get_by_id(tautos, auto_id) ==
    first({i \in DOMAIN tautos : i = auto_id})

\* get_by_chasis comparing with the lower-case form of its argument
get_by_chasis_minusculas(tautos, numero_chasis) ==
    {i \in DOMAIN tautos : tautos[i].numero_chasis = lower(numero_chasis)}

\* AutoRepository.get_by_chasis: the rows the query selects
get_by_chasis(tautos, numero_chasis) ==
    {i \in DOMAIN tautos : tautos[i].numero_chasis = upper(numero_chasis)}

\* AutoRepository.create, vehiculo_existente being what get_by_chasis gave
AutoRepository_create(ta, tv, sa, sv, nuevo_auto, vehiculo_existente) ==
    IF vehiculo_existente # 0
    THEN Resultado("error",
             raise_handled(MsgYaExiste \o nuevo_auto.numero_chasis),
             str_handled(MsgYaExiste \o nuevo_auto.numero_chasis),
             0, ta, tv, sa, sv)
    ELSE LET vehiculo == AutoBase(nuevo_auto)
         IN  IF ~vehiculo.ok
             THEN Resultado("error", raise_handled(MsgValidation), str_handled(MsgValidation),
                            0, ta, tv, sa, sv)
             ELSE Resultado("ok", "ok", <<>>, sa + 1,
                            ta @@ ((sa + 1) :> Val(vehiculo.valor)),
                            tv, sa + 1, sv)

\* An update that refuses any stored chassis number, the target's own too
AutoRepository_update_sin_id(ta, tv, sa, sv, auto_id, datos, vehiculo_existente) ==
    IF auto_id \notin DOMAIN ta
    THEN Resultado("none", "NotFound", <<>>, auto_id, ta, tv, sa, sv)
    ELSE IF vehiculo_existente # 0 \/ \E f \in DOMAIN datos : datos[f] = None
    THEN Resultado("error", "DatabaseError", str_handled(MsgNotNull), auto_id, ta, tv, sa, sv)
    ELSE Resultado("ok", "ok", <<>>, auto_id,
                   [ta EXCEPT ![auto_id] = fila_de(setattr_campos(@, datos))],
                   tv, sa, sv)

\* An update whose UPDATE statement has no WHERE clause
AutoRepository_update_sin_where(ta, tv, sa, sv, auto_id, datos, vehiculo_existente) ==
    IF auto_id \notin DOMAIN ta \/ \E f \in DOMAIN datos : datos[f] = None
    THEN Resultado("none", "NotFound", <<>>, auto_id, ta, tv, sa, sv)
    ELSE Resultado("ok", "ok", <<>>, auto_id,
                   [i \in DOMAIN ta |-> fila_de(setattr_campos(ta[i], datos))],
                   tv, sa, sv)

\* AutoRepository.update, vehiculo_existente being what get_by_chasis gave
\* when the patch carries a chassis number
AutoRepository_update(ta, tv, sa, sv, auto_id, datos, vehiculo_existente) ==
    IF Auto_get_by_id(ta, auto_id) = {0}
    THEN Resultado("none", "NotFound", <<>>, auto_id, ta, tv, sa, sv)
    ELSE IF /\ "numero_chasis" \in DOMAIN datos
            /\ datos["numero_chasis"] # None
            /\ Val(datos["numero_chasis"]) # <<>>
            /\ vehiculo_existente # 0
            /\ vehiculo_existente # auto_id
    THEN Resultado("error",
             raise_handled(MsgYaExiste \o Val(datos["numero_chasis"])),
             str_handled(MsgYaExiste \o Val(datos["numero_chasis"])),
             auto_id, ta, tv, sa, sv)
    ELSE LET vehiculo == setattr_campos(ta[auto_id], datos)
         IN  IF tiene_null(vehiculo)
             THEN Resultado("error", raise_handled(MsgNotNull), str_handled(MsgNotNull),
                            auto_id, ta, tv, sa, sv)
             ELSE Resultado("ok", "ok", <<>>, auto_id,
                            [ta EXCEPT ![auto_id] = fila_de(vehiculo)],
                            tv, sa, sv)

\* AutoRepository.delete
AutoRepository_delete(ta, tv, sa, sv, auto_id) ==
    LET cantidad_ventas ==
            Cardinality({v \in DOMAIN tv : tv[v].auto_id = auto_id})
    IN  IF Auto_get_by_id(ta, auto_id) = {0}
        THEN Resultado("none", "NotFound", <<>>, auto_id, ta, tv, sa, sv)
        ELSE IF cantidad_ventas > 0
        THEN Resultado("error",
                 raise_handled(
                     MsgNoSePuede1 \o str_int(cantidad_ventas) \o MsgNoSePuede2),
                 str_handled(MsgNoSePuede1 \o str_int(cantidad_ventas) \o MsgNoSePuede2),
                 auto_id, ta, tv, sa, sv)
        ELSE Resultado("ok", "ok", <<>>, auto_id,
                       [i \in DOMAIN ta \ {auto_id} |-> ta[i]], tv, sa, sv)

\* ------------------------------------------------- repository.py: ventas
\* VentaRepository.get_by_id
Venta_get_by_id(tventas, venta_id) ==
    first({i \in DOMAIN tventas : i = venta_id})

\* VentaRepository.create at time now
VentaRepository_create(ta, tv, sa, sv, nueva_venta, now) ==
    IF Auto_get_by_id(ta, nueva_venta.auto_id) = {0}
    THEN Resultado("error",
             raise_handled(MsgNoExiste \o str_int(nueva_venta.auto_id)),
             str_handled(MsgNoExiste \o str_int(nueva_venta.auto_id)),
             0, ta, tv, sa, sv)
    ELSE LET venta == VentaBase(nueva_venta, now)
         IN  IF ~venta.ok
             THEN Resultado("error", raise_handled(MsgValidation), str_handled(MsgValidation),
                            0, ta, tv, sa, sv)
             ELSE IF ~fk_auto(ta, Val(venta.valor))
             THEN Resultado("error", raise_handled(MsgFK), str_handled(MsgFK),
                            0, ta, tv, sa, sv + 1)
             ELSE Resultado("ok", "ok", <<>>, sv + 1, ta,
                            tv @@ ((sv + 1) :> Val(venta.valor)), sa, sv + 1)

\* VentaRepository.update
VentaRepository_update(ta, tv, sa, sv, venta_id, datos) ==
    IF Venta_get_by_id(tv, venta_id) = {0}
    THEN Resultado("none", "NotFound", <<>>, venta_id, ta, tv, sa, sv)
    ELSE IF /\ "auto_id" \in DOMAIN datos
            /\ datos["auto_id"] # None
            /\ Val(datos["auto_id"]) # 0
            /\ Auto_get_by_id(ta, Val(datos["auto_id"])) = {0}
    THEN Resultado("error",
             raise_handled(MsgNoExiste \o str_int(Val(datos["auto_id"]))),
             str_handled(MsgNoExiste \o str_int(Val(datos["auto_id"]))),
             venta_id, ta, tv, sa, sv)
    ELSE LET venta == setattr_campos(tv[venta_id], datos)
         IN  IF tiene_null(venta)
             THEN Resultado("error", raise_handled(MsgNotNull), str_handled(MsgNotNull),
                            venta_id, ta, tv, sa, sv)
             ELSE IF ~fk_auto(ta, fila_de(venta))
             THEN Resultado("error", raise_handled(MsgFK), str_handled(MsgFK),
                            venta_id, ta, tv, sa, sv)
             ELSE Resultado("ok", "ok", <<>>, venta_id, ta,
                            [tv EXCEPT ![venta_id] = fila_de(venta)], sa, sv)

\* A delete that removes the sale's vehicle with the sale
VentaRepository_delete_en_cascada(ta, tv, sa, sv, venta_id) ==
    IF venta_id \notin DOMAIN tv
    THEN Resultado("none", "NotFound", <<>>, venta_id, ta, tv, sa, sv)
    ELSE Resultado("ok", "ok", <<>>, venta_id,
                   [i \in DOMAIN ta \ {tv[venta_id].auto_id} |-> ta[i]],
                   [i \in DOMAIN tv \ {venta_id} |-> tv[i]], sa, sv)

\* VentaRepository.delete
VentaRepository_delete(ta, tv, sa, sv, venta_id) ==
    IF Venta_get_by_id(tv, venta_id) = {0}
    THEN Resultado("none", "NotFound", <<>>, venta_id, ta, tv, sa, sv)
    ELSE Resultado("ok", "ok", <<>>, venta_id, ta,
                   [i \in DOMAIN tv \ {venta_id} |-> tv[i]], sa, sv)

\* ------------------------------------------------ repository.py: queries
\* The orders in which a query with ORDER BY can return the rows S: antes
\* holds the pairs <<i, j>> of rows of which i sorts strictly before j; rows
\* that sort equal come in any order.
Ordenaciones(S, antes) ==
    {f \in [1..Cardinality(S) -> S] :
        \A a, b \in 1..Cardinality(S) :
            a < b => (f[a] # f[b] /\ <<f[b], f[a]>> \notin antes)}

\* OFFSET skip LIMIT limit of the ordered rows filas
offset_limit(filas, skip, limit) ==
    LET quedan == IF Len(filas) > skip THEN Len(filas) - skip ELSE 0
        n == IF quedan < limit THEN quedan ELSE limit
    IN  [k \in 1..n |-> filas[skip + k]]

\* The object loaded from row i of a table
cargar(tabla, i) == [id |-> i] @@ tabla[i]

\* get_all that ignores skip
Auto_get_all_sin_offset(tautos, skip, limit) ==
    LET antes == {p \in (DOMAIN tautos) \X (DOMAIN tautos) : p[1] < p[2]}
    IN  {[k \in DOMAIN f |-> cargar(tautos, f[k])] :
            f \in {offset_limit(g, 0, limit) :
                      g \in Ordenaciones(DOMAIN tautos, antes)}}

\* AutoRepository.get_all: the lists the query can return
Auto_get_all(tautos, skip, limit) ==
    LET antes == {p \in (DOMAIN tautos) \X (DOMAIN tautos) : p[1] < p[2]}
    IN  {[k \in DOMAIN f |-> cargar(tautos, f[k])] :
            f \in {offset_limit(g, skip, limit) :
                      g \in Ordenaciones(DOMAIN tautos, antes)}}

\* AutoRepository.count_all, VentaRepository.count_all
count_all(tabla) == Cardinality(DOMAIN tabla)

\* VentaRepository.get_all: the lists the query can return
Venta_get_all(tventas, skip, limit) ==
    LET antes == {p \in (DOMAIN tventas) \X (DOMAIN tventas) :
                     tventas[p[1]].fecha_venta.instante
                         > tventas[p[2]].fecha_venta.instante}
    IN  {[k \in DOMAIN f |-> cargar(tventas, f[k])] :
            f \in {offset_limit(g, skip, limit) :
                      g \in Ordenaciones(DOMAIN tventas, antes)}}

\* The order of characters in the column's collation, for the characters
\* stored text is made of: the blank, the digits, the letters.
Colacion == <<" ">> \o Digitos \o Mayusculas \o Minusculas
ord == [c \in Elementos(Colacion) |->
           CHOOSE i \in 1..Len(Colacion) : Colacion[i] = c]

\* Text a sorts strictly before text b.
texto_antes(a, b) ==
    \E k \in 1..(Len(a) + 1) :
        /\ k <= Len(b)
        /\ \A j \in 1..(k - 1) : a[j] = b[j]
        /\ k <= Len(a) => ord[a[k]] < ord[b[k]]

\* columna.ilike("%" + patron + "%") for a patron without % and _
ilike(valor, patron) == Contains(lower(valor), lower(patron))

\* `if filtro:` for an Optional text: None and the empty text are false.
truthy_str(o) == o # None /\ Len(Val(o)) > 0

\* `if filtro:` for an Optional number: None and 0 are false.
truthy_num(o) == o # None /\ Val(o) # 0

\* The WHERE clause AutoRepository.search builds
Auto_search_where(fila, filtros) ==
    /\ truthy_str(filtros.marca) => ilike(fila.marca, Val(filtros.marca))
    /\ truthy_str(filtros.modelo) => ilike(fila.modelo, Val(filtros.modelo))
    /\ truthy_num(filtros.anio_min) => fila.anio >= Val(filtros.anio_min)
    /\ truthy_num(filtros.anio_max) => fila.anio <= Val(filtros.anio_max)

\* ORDER BY marca, modelo, año: row a sorts strictly before row b.
Auto_search_antes(a, b) ==
    \/ texto_antes(a.marca, b.marca)
    \/ a.marca = b.marca /\ texto_antes(a.modelo, b.modelo)
    \/ a.marca = b.marca /\ a.modelo = b.modelo /\ a.anio < b.anio

\* AutoRepository.search: the lists the query can return
Auto_search(tautos, filtros, skip, limit) ==
    LET antes == {p \in (DOMAIN tautos) \X (DOMAIN tautos) :
                     Auto_search_antes(tautos[p[1]], tautos[p[2]])}
        filas == {i \in DOMAIN tautos : Auto_search_where(tautos[i], filtros)}
    IN  {[k \in DOMAIN f |-> cargar(tautos, f[k])] :
            f \in {offset_limit(g, skip, limit) :
                      g \in Ordenaciones(filas, antes)}}

\* The WHERE clause VentaRepository.search builds
Venta_search_where(fila, filtros) ==
    /\ truthy_str(filtros.nombre_comprador) =>
           ilike(fila.nombre_comprador, Val(filtros.nombre_comprador))
    /\ truthy_num(filtros.precio_min) => fila.precio >= Val(filtros.precio_min)
    /\ truthy_num(filtros.precio_max) => fila.precio <= Val(filtros.precio_max)
    /\ filtros.fecha_inicio # None =>
           fila.fecha_venta.instante >= Val(filtros.fecha_inicio).instante
    /\ filtros.fecha_fin # None =>
           fila.fecha_venta.instante <= Val(filtros.fecha_fin).instante
    /\ truthy_num(filtros.auto_id) => fila.auto_id = Val(filtros.auto_id)

\* VentaRepository.search: the lists the query can return
Venta_search(tventas, filtros, skip, limit) ==
    LET antes == {p \in (DOMAIN tventas) \X (DOMAIN tventas) :
                     tventas[p[1]].fecha_venta.instante
                         > tventas[p[2]].fecha_venta.instante}
        filas == {i \in DOMAIN tventas :
                     Venta_search_where(tventas[i], filtros)}
    IN  {[k \in DOMAIN f |-> cargar(tventas, f[k])] :
            f \in {offset_limit(g, skip, limit) :
                      g \in Ordenaciones(filas, antes)}}

\* ------------------------------------------------------------ the handlers
\* No request is being served.
SinRespuesta ==
    [op |-> "ninguna", id |-> 0, entrada |-> <<>>, clase |-> "ok", status |-> 0]

\* The handler op, called with path or created id and body entrada, answers
\* with HTTP status, the repository having returned (clase "ok"), found
\* nothing ("NotFound") or raised an exception of class clase.
Responder(op, id, entrada, clase, status) ==
    respuesta' = [op |-> op, id |-> id, entrada |-> entrada,
                  clase |-> clase, status |-> status]

\* The tables and sequences a repository call leaves.
Guardar(r) ==
    /\ autos' = r.autos
    /\ ventas' = r.ventas
    /\ seqAuto' = r.seqAuto
    /\ seqVenta' = r.seqVenta

\* A body the framework does not hand to the handler: it answers 422 to a
\* validation error and 500 to any other exception of a validator.
Rechazar(op, id, entrada) ==
    /\ Responder(op, id, entrada, "ValidationError", 422)
    /\ UNCHANGED <<autos, ventas, seqAuto, seqVenta>>

Fallar(op, id, entrada, r) ==
    IF r.excepcion = "TypeError"
    THEN /\ Responder(op, id, entrada, "TypeError", 500)
         /\ UNCHANGED <<autos, ventas, seqAuto, seqVenta>>
    ELSE Rechazar(op, id, entrada)

\* AutoResponse.model_validate(objeto) / VentaResponse.model_validate(objeto)
\* at time now: the loaded row is validated as an AutoBase / a VentaBase.
AutoResponse(objeto) ==
    LET r == AutoBase(objeto)
    IN  IF r.ok THEN Ok([id |-> objeto.id] @@ Val(r.valor)) ELSE r
VentaResponse(objeto, now) ==
    LET r == VentaBase(objeto, now)
    IN  IF r.ok THEN Ok([id |-> objeto.id] @@ Val(r.valor)) ELSE r

\* The words the except clauses of the handlers look for
PatChasis == <<"c","h","a","s","i","s">>
PatVenta == <<"v","e","n","t","a">>
PatAuto == <<"a","u","t","o">>
PatExiste == <<"e","x","i","s","t","e">>

\* The detail of the HTTPException the except clause of each handler raises
\* for an exception whose str() is error.
detalle_crear_auto(error, nuevo_auto) ==
    LET mensaje_error == lower(error)
    IN  IF Contains(mensaje_error, PatChasis)
           \/ Contains(mensaje_error, PatUnique)
        THEN [texto |-> "El numero de chasis ya existe: ",
              valor |-> nuevo_auto.numero_chasis]
        ELSE [texto |-> "Error al crear auto: ", valor |-> error]
detalle_actualizar_auto(error) ==
    LET mensaje_error == lower(error)
    IN  IF Contains(mensaje_error, PatChasis)
           \/ Contains(mensaje_error, PatUnique)
        THEN [texto |-> "El numero de chasis ya existe", valor |-> <<>>]
        ELSE [texto |-> "Error al actualizar auto: ", valor |-> error]
detalle_eliminar_auto(error) ==
    LET mensaje_error == lower(error)
    IN  IF Contains(mensaje_error, PatVenta)
        THEN [texto |-> "No se puede eliminar el auto porque tiene ventas asociadas",
              valor |-> <<>>]
        ELSE [texto |-> "Error al eliminar auto: ", valor |-> error]
detalle_crear_venta(error, nueva_venta) ==
    LET mensaje_error == lower(error)
    IN  IF Contains(mensaje_error, PatAuto)
           /\ Contains(mensaje_error, PatExiste)
        THEN [texto |-> "El auto con ID {auto_id} no existe",
              valor |-> str_int(nueva_venta.auto_id)]
        ELSE [texto |-> "Error al crear venta: ", valor |-> error]
detalle_actualizar_venta(error) ==
    LET mensaje_error == lower(error)
    IN  IF Contains(mensaje_error, PatAuto)
           /\ Contains(mensaje_error, PatExiste)
        THEN [texto |-> "El auto especificado no existe", valor |-> <<>>]
        ELSE [texto |-> "Error al actualizar venta: ", valor |-> error]
detalle_eliminar_venta(error) ==
    [texto |-> "Error al eliminar venta: ", valor |-> error]

\* The details of the messages the repositories raise, computed once.
DetalleDe ==
    [m \in {MensajeDeError[e] : e \in MensajesDeError} \cup {MsgValidation} |->
        [actualizar_auto |-> detalle_actualizar_auto(m),
         eliminar_auto |-> detalle_eliminar_auto(m),
         actualizar_venta |-> detalle_actualizar_venta(m),
         eliminar_venta |-> detalle_eliminar_venta(m)]]

\* The except clause of a handler answers 400 with a detail.
ResponderError(op, id, entrada, clase, detalle) ==
    respuesta' = [op |-> op, id |-> id, entrada |-> entrada,
                  clase |-> clase, status |-> 400, detalle |-> detalle]

\* POST /autos/
crear_auto ==
    \E entrada \in AutoCreateEntradas :
        LET nuevo_auto == AutoCreateValidado[entrada]
        IN  /\ respuesta = SinRespuesta
            /\ UNCHANGED <<ahora, proc>>
            /\ IF ~nuevo_auto.ok THEN Rechazar("crear_auto", 0, entrada)
               ELSE \E existente \in first(get_by_chasis(autos,
                                       Val(nuevo_auto.valor).numero_chasis)) :
                    LET r == AutoRepository_create(autos, ventas, seqAuto,
                                 seqVenta, Val(nuevo_auto.valor), existente)
                    IN  /\ r.seqAuto <= MaxAutoId
                        /\ Guardar(r)
                        /\ IF r.estado # "ok"
                           THEN ResponderError("crear_auto", r.id, entrada,
                                    r.clase,
                                    detalle_crear_auto(r.mensaje,
                                                       Val(nuevo_auto.valor)))
                           ELSE IF ~AutoResponse(cargar(r.autos, r.id)).ok
                           THEN ResponderError("crear_auto", r.id, entrada,
                                    "ValidationErrorDeRespuesta",
                                    detalle_crear_auto(MsgValidation,
                                                       Val(nuevo_auto.valor)))
                           ELSE Responder("crear_auto", r.id, entrada,
                                          "ok", 201)

\* PUT /autos/{auto_id}
actualizar_auto ==
    \E auto_id \in 1..MaxAutoId, entrada \in AutoUpdateEntradas :
        LET datos == AutoUpdateValidado[entrada]
        IN  /\ respuesta = SinRespuesta
            /\ UNCHANGED <<ahora, proc>>
            /\ IF ~datos.ok THEN Rechazar("actualizar_auto", auto_id, entrada)
               ELSE \E existente \in
                        (IF /\ "numero_chasis" \in DOMAIN entrada
                            /\ Val(datos.valor)["numero_chasis"] # None
                         THEN first(get_by_chasis(autos,
                                  Val(Val(datos.valor)["numero_chasis"])))
                         ELSE {0}) :
                    LET r == AutoRepository_update(autos, ventas, seqAuto,
                                 seqVenta, auto_id, Val(datos.valor), existente)
                    IN  /\ Guardar(r)
                        /\ CASE r.estado = "none" ->
                                  Responder("actualizar_auto", auto_id,
                                            entrada, r.clase, 404)
                             [] r.estado = "error" ->
                                  ResponderError("actualizar_auto", auto_id,
                                      entrada, r.clase,
                                      DetalleDe[r.mensaje].actualizar_auto)
                             [] OTHER ->
                                  IF ~AutoResponse(cargar(r.autos, auto_id)).ok
                                  THEN ResponderError("actualizar_auto",
                                           auto_id, entrada,
                                           "ValidationErrorDeRespuesta",
                                           DetalleDe[MsgValidation].actualizar_auto)
                                  ELSE Responder("actualizar_auto", auto_id,
                                                 entrada, "ok", 200)

\* DELETE /autos/{auto_id}
eliminar_auto ==
    \E auto_id \in 1..MaxAutoId :
        LET r == AutoRepository_delete(autos, ventas, seqAuto, seqVenta,
                                       auto_id)
        IN  /\ respuesta = SinRespuesta
            /\ UNCHANGED <<ahora, proc>>
            /\ Guardar(r)
            /\ CASE r.estado = "ok" ->
                      Responder("eliminar_auto", auto_id, <<>>, r.clase, 204)
                 [] r.estado = "none" ->
                      Responder("eliminar_auto", auto_id, <<>>, r.clase, 404)
                 [] OTHER ->
                      ResponderError("eliminar_auto", auto_id, <<>>, r.clase,
                                     DetalleDe[r.mensaje].eliminar_auto)

\* POST /ventas/
crear_venta ==
    \E entrada \in VentaCreateEntradas :
        LET nueva_venta == VentaCreateValidado[entrada][ahora]
        IN  /\ respuesta = SinRespuesta
            /\ UNCHANGED <<ahora, proc>>
            /\ IF ~nueva_venta.ok
               THEN Fallar("crear_venta", 0, entrada, nueva_venta)
               ELSE LET r == VentaRepository_create(autos, ventas, seqAuto,
                                 seqVenta, Val(nueva_venta.valor), ahora)
                    IN  /\ r.seqVenta <= MaxVentaId
                        /\ Guardar(r)
                        /\ IF r.estado # "ok"
                           THEN ResponderError("crear_venta", r.id, entrada,
                                    r.clase,
                                    detalle_crear_venta(r.mensaje,
                                                        Val(nueva_venta.valor)))
                           ELSE IF ~VentaResponse(cargar(r.ventas, r.id),
                                                  ahora).ok
                           THEN ResponderError("crear_venta", r.id, entrada,
                                    "ValidationErrorDeRespuesta",
                                    detalle_crear_venta(MsgValidation,
                                                        Val(nueva_venta.valor)))
                           ELSE Responder("crear_venta", r.id, entrada,
                                          "ok", 201)

\* PUT /ventas/{venta_id}
actualizar_venta ==
    \E venta_id \in 1..MaxVentaId, entrada \in VentaUpdateEntradas :
        LET datos == VentaUpdateValidado[entrada][ahora]
        IN  /\ respuesta = SinRespuesta
            /\ UNCHANGED <<ahora, proc>>
            /\ IF ~datos.ok
               THEN Fallar("actualizar_venta", venta_id, entrada, datos)
               ELSE LET r == VentaRepository_update(autos, ventas, seqAuto,
                                 seqVenta, venta_id, Val(datos.valor))
                    IN  /\ Guardar(r)
                        /\ CASE r.estado = "none" ->
                                  Responder("actualizar_venta", venta_id,
                                            entrada, r.clase, 404)
                             [] r.estado = "error" ->
                                  ResponderError("actualizar_venta", venta_id,
                                      entrada, r.clase,
                                      DetalleDe[r.mensaje].actualizar_venta)
                             [] OTHER ->
                                  IF ~VentaResponse(cargar(r.ventas, venta_id),
                                                    ahora).ok
                                  THEN ResponderError("actualizar_venta",
                                           venta_id, entrada,
                                           "ValidationErrorDeRespuesta",
                                           DetalleDe[MsgValidation].actualizar_venta)
                                  ELSE Responder("actualizar_venta", venta_id,
                                                 entrada, "ok", 200)

\* DELETE /ventas/{venta_id}
eliminar_venta ==
    \E venta_id \in 1..MaxVentaId :
        LET r == VentaRepository_delete(autos, ventas, seqAuto, seqVenta,
                                        venta_id)
        IN  /\ respuesta = SinRespuesta
            /\ UNCHANGED <<ahora, proc>>
            /\ Guardar(r)
            /\ CASE r.estado = "ok" ->
                      Responder("eliminar_venta", venta_id, <<>>, r.clase, 204)
                 [] r.estado = "none" ->
                      Responder("eliminar_venta", venta_id, <<>>, r.clase, 404)
                 [] OTHER ->
                      ResponderError("eliminar_venta", venta_id, <<>>, r.clase,
                                     DetalleDe[r.mensaje].eliminar_venta)

\* Query parameters skip (ge=0) and limit (ge=1, le=100)
SkipEntradas == 0..MaxAutoId
LimitEntradas == 1..MaxAutoId

\* has_next with <= for <
has_next_inclusivo(skip, limit, total) == (skip + limit) <= total

\* has_next of a paginated response
has_next(skip, limit, total) == (skip + limit) < total

\* PaginatedAutosResponse / PaginatedVentasResponse
PaginatedResponse(items, total, skip, limit) ==
    [items |-> items, total |-> total, skip |-> skip, limit |-> limit,
     has_next |-> has_next(skip, limit, total)]

\* A read handler op, called with the query parameters entrada, answers
\* with the body cuerpo; nothing is written.
Leer(op, id, entrada, cuerpo) ==
    /\ respuesta' = [op |-> op, id |-> id, entrada |-> entrada,
                     clase |-> "ok", status |-> 200, cuerpo |-> cuerpo]
    /\ UNCHANGED <<autos, ventas, seqAuto, seqVenta, ahora, proc>>

\* A GET handler that finds nothing answers 404.
NoEncontrado(op, id) ==
    /\ Responder(op, id, <<>>, "NotFound", 404)
    /\ UNCHANGED <<autos, ventas, seqAuto, seqVenta, ahora, proc>>

\* The except clause of a read handler answers 500 to an exception of class
\* clase.
ErrorInterno(op, id, entrada, clase) ==
    /\ Responder(op, id, entrada, clase, 500)
    /\ UNCHANGED <<autos, ventas, seqAuto, seqVenta, ahora, proc>>

\* [AutoResponse.model_validate(auto) for auto in lista] and the same for
\* VentaResponse at time now
AutoResponses(lista) == [k \in DOMAIN lista |-> AutoResponse(lista[k])]
VentaResponses(lista, now) ==
    [k \in DOMAIN lista |-> VentaResponse(lista[k], now)]

\* GET /autos/{auto_id}
obtener_auto ==
    \E auto_id \in 1..MaxAutoId :
        /\ respuesta = SinRespuesta
        /\ \E vehiculo \in Auto_get_by_id(autos, auto_id) :
              IF vehiculo = 0 THEN NoEncontrado("obtener_auto", auto_id)
              ELSE LET cuerpo == AutoResponse(cargar(autos, vehiculo))
                   IN  IF ~cuerpo.ok
                       THEN ErrorInterno("obtener_auto", auto_id, <<>>,
                                         "ValidationErrorDeRespuesta")
                       ELSE Leer("obtener_auto", auto_id, <<>>,
                                 Val(cuerpo.valor))

\* GET /ventas/{venta_id}
obtener_venta ==
    \E venta_id \in 1..MaxVentaId :
        /\ respuesta = SinRespuesta
        /\ \E venta \in Venta_get_by_id(ventas, venta_id) :
              IF venta = 0 THEN NoEncontrado("obtener_venta", venta_id)
              ELSE LET cuerpo == VentaResponse(cargar(ventas, venta), ahora)
                   IN  IF ~cuerpo.ok
                       THEN ErrorInterno("obtener_venta", venta_id, <<>>,
                                         "ValidationErrorDeRespuesta")
                       ELSE Leer("obtener_venta", venta_id, <<>>,
                                 Val(cuerpo.valor))

\* GET /autos/
listar_autos ==
    \E skip \in SkipEntradas, limit \in LimitEntradas :
        /\ respuesta = SinRespuesta
        /\ \E lista_autos \in Auto_get_all(autos, skip, limit) :
              LET items == AutoResponses(lista_autos)
                  entrada == [skip |-> skip, limit |-> limit]
              IN  IF \E k \in DOMAIN items : ~items[k].ok
                  THEN ErrorInterno("listar_autos", 0, entrada,
                                    "ValidationErrorDeRespuesta")
                  ELSE Leer("listar_autos", 0, entrada,
                           PaginatedResponse(
                               [k \in DOMAIN items |-> Val(items[k].valor)],
                               count_all(autos), skip, limit))

\* GET /ventas/?skip=..&limit=..
listar_ventas_de(skip, limit) ==
    /\ respuesta = SinRespuesta
    /\ \E lista_ventas \in Venta_get_all(ventas, skip, limit) :
          LET items == VentaResponses(lista_ventas, ahora)
              entrada == [skip |-> skip, limit |-> limit]
          IN  IF \E k \in DOMAIN items : ~items[k].ok
              THEN ErrorInterno("listar_ventas", 0, entrada,
                                "ValidationErrorDeRespuesta")
              ELSE Leer("listar_ventas", 0, entrada,
                       PaginatedResponse(
                           [k \in DOMAIN items |-> Val(items[k].valor)],
                           count_all(ventas), skip, limit))

\* GET /ventas/
listar_ventas ==
    \E skip \in SkipEntradas, limit \in LimitEntradas :
        listar_ventas_de(skip, limit)

\* Query parameters skip and limit of the search endpoints
SkipBusqueda == {0, 1}
LimitBusqueda == {2}

\* Query parameters of GET /autos/search/
SinFiltroAuto ==
    [marca |-> None, modelo |-> None, anio_min |-> None, anio_max |-> None]
AutoSearchEntradas ==
    { SinFiltroAuto,
      [SinFiltroAuto EXCEPT !.marca = Some(<<"b","M">>)],
      [SinFiltroAuto EXCEPT !.modelo = Some(<<"5">>)],
      [SinFiltroAuto EXCEPT !.anio_min = Some(AnioImportacion)],
      [SinFiltroAuto EXCEPT !.anio_min = Some(AnioMinimo - 1)],
      [SinFiltroAuto EXCEPT !.anio_max = Some(AnioImportacion - 1)],
      [SinFiltroAuto EXCEPT !.anio_max = Some(0)],
      [SinFiltroAuto EXCEPT !.marca = Some(<<"f","i">>),
                            !.anio_max = Some(AnioImportacion)] }

\* Query(None, ge=1900) of año_min and Query(None, le=datetime.now().year)
\* of año_max
AutoSearchParams(filtros) ==
    /\ filtros.anio_min # None => Val(filtros.anio_min) >= AnioMinimo
    /\ filtros.anio_max # None => Val(filtros.anio_max) <= AnioImportacion

\* The limit of the query that counts the filtered records
LimiteTotal == 1000

\* GET /autos/search/
buscar_autos ==
    \E filtros \in AutoSearchEntradas,
       skip \in SkipBusqueda, limit \in LimitBusqueda :
        LET entrada == [filtros |-> filtros, skip |-> skip, limit |-> limit]
        IN  /\ respuesta = SinRespuesta
            /\ IF ~AutoSearchParams(filtros)
               THEN /\ Rechazar("buscar_autos", 0, entrada)
                    /\ UNCHANGED <<ahora, proc>>
               ELSE \E resultados \in Auto_search(autos, filtros, skip, limit) :
                       \* every list the second query can return has the
                       \* same length
                       LET todos_filtrados ==
                               CHOOSE t \in Auto_search(autos, filtros, 0,
                                                        LimiteTotal) : TRUE
                           items == AutoResponses(resultados)
                       IN  IF \E k \in DOMAIN items : ~items[k].ok
                           THEN ErrorInterno("buscar_autos", 0, entrada,
                                             "ValidationErrorDeRespuesta")
                           ELSE Leer("buscar_autos", 0, entrada,
                                    PaginatedResponse(
                                        [k \in DOMAIN items |->
                                            Val(items[k].valor)],
                                        Len(todos_filtrados), skip, limit))

\* Query parameters of GET /ventas/search/
SinFiltroVenta ==
    [nombre_comprador |-> None, precio_min |-> None, precio_max |-> None,
     fecha_inicio |-> None, fecha_fin |-> None, auto_id |-> None]
VentaSearchEntradas ==
    { SinFiltroVenta,
      [SinFiltroVenta EXCEPT !.nombre_comprador = Some(<<"N","A">>)],
      [SinFiltroVenta EXCEPT !.precio_min = Some(20000)],
      [SinFiltroVenta EXCEPT !.precio_max = Some(19999)],
      [SinFiltroVenta EXCEPT !.precio_min = Some(20000),
                             !.precio_max = Some(19999)],
      [SinFiltroVenta EXCEPT !.precio_max = Some(0)],
      [SinFiltroVenta EXCEPT !.fecha_inicio = Some(datetime_now(1))],
      [SinFiltroVenta EXCEPT !.fecha_fin = Some(datetime_now(0))],
      [SinFiltroVenta EXCEPT !.fecha_inicio = Some(datetime_now(1)),
                             !.fecha_fin = Some(datetime_now(0))] }
    \cup {[SinFiltroVenta EXCEPT !.auto_id = Some(a)] : a \in {0, 1}}

\* Query(None, gt=0) of precio_min and precio_max
VentaSearchParams(filtros) ==
    /\ filtros.precio_min # None => Val(filtros.precio_min) > 0
    /\ filtros.precio_max # None => Val(filtros.precio_max) > 0

\* GET /ventas/search/
buscar_ventas ==
    \E filtros \in VentaSearchEntradas,
       skip \in SkipBusqueda, limit \in LimitBusqueda :
        LET entrada == [filtros |-> filtros, skip |-> skip, limit |-> limit]
        IN  /\ respuesta = SinRespuesta
            /\ IF ~VentaSearchParams(filtros)
               THEN /\ Rechazar("buscar_ventas", 0, entrada)
                    /\ UNCHANGED <<ahora, proc>>
               ELSE IF \/ /\ truthy_num(filtros.precio_min)
                          /\ truthy_num(filtros.precio_max)
                          /\ Val(filtros.precio_min) > Val(filtros.precio_max)
                       \/ /\ filtros.fecha_inicio # None
                          /\ filtros.fecha_fin # None
                          /\ Val(filtros.fecha_inicio).instante
                                 > Val(filtros.fecha_fin).instante
               THEN /\ Responder("buscar_ventas", 0, entrada,
                                 "HTTPException", 400)
                    /\ UNCHANGED <<autos, ventas, seqAuto, seqVenta,
                                   ahora, proc>>
               ELSE \E resultados \in
                           Venta_search(ventas, filtros, skip, limit) :
                       \* every list the second query can return has the
                       \* same length
                       LET todos_filtrados ==
                               CHOOSE t \in Venta_search(ventas, filtros, 0,
                                                         LimiteTotal) : TRUE
                           items == VentaResponses(resultados, ahora)
                       IN  IF \E k \in DOMAIN items : ~items[k].ok
                           THEN ErrorInterno("buscar_ventas", 0, entrada,
                                             "ValidationErrorDeRespuesta")
                           ELSE Leer("buscar_ventas", 0, entrada,
                                    PaginatedResponse(
                                        [k \in DOMAIN items |->
                                            Val(items[k].valor)],
                                        Len(todos_filtrados), skip, limit))

\* The response leaves; the next request can be served.
enviar_respuesta ==
    /\ respuesta # SinRespuesta
    /\ respuesta' = SinRespuesta
    /\ UNCHANGED <<autos, ventas, seqAuto, seqVenta, ahora, proc>>

\* The wall clock advances between requests.
Tick ==
    /\ respuesta = SinRespuesta
    /\ ahora < MaxAhora
    /\ ahora' = ahora + 1
    /\ respuesta' = SinRespuesta
    /\ UNCHANGED <<autos, ventas, seqAuto, seqVenta, proc>>

TablaVacia == [i \in {} |-> None]

Init ==
    /\ autos = TablaVacia
    /\ ventas = TablaVacia
    /\ seqAuto = 0
    /\ seqVenta = 0
    /\ ahora = 0
    /\ respuesta = SinRespuesta
    /\ proc = <<>>

\* Requests served one at a time.
Next ==
    \/ crear_auto
    \/ actualizar_auto
    \/ eliminar_auto
    \/ crear_venta
    \/ actualizar_venta
    \/ eliminar_venta
    \/ obtener_auto
    \/ obtener_venta
    \/ listar_autos
    \/ listar_ventas
    \/ buscar_autos
    \/ buscar_ventas
    \/ enviar_respuesta
    \/ Tick

Spec == Init /\ [][Next]_vars

\* --------------------------------------------------- storage that can fail
\* The handlers that write and the handlers that read
Escrituras ==
    {"crear_auto", "actualizar_auto", "eliminar_auto",
     "crear_venta", "actualizar_venta", "eliminar_venta"}
Lecturas ==
    {"obtener_auto", "obtener_venta", "listar_autos", "listar_ventas",
     "buscar_autos", "buscar_ventas"}

\* The bodies of op that the framework hands to the handler at time now
EntradasValidas(op, now) ==
    CASE op = "crear_auto" ->
            {e \in AutoCreateEntradas : AutoCreateValidado[e].ok}
      [] op = "actualizar_auto" ->
            {e \in AutoUpdateEntradas : AutoUpdateValidado[e].ok}
      [] op = "crear_venta" ->
            {e \in VentaCreateEntradas : VentaCreateValidado[e][now].ok}
      [] op = "actualizar_venta" ->
            {e \in VentaUpdateEntradas : VentaUpdateValidado[e][now].ok}
      [] OTHER -> {<<>>}

\* The handler op runs while the database server is unreachable: the first
\* statement of the repository method raises, its except clause rolls back
\* and raises handle_database_error(error), and the except clause of the
\* handler answers.
sin_conexion(op) ==
    \E id \in 0..1, entrada \in EntradasValidas(op, ahora) :
        LET clase == raise_handled(MsgConexion)
            error == str_handled(MsgConexion)
        IN  /\ respuesta = SinRespuesta
            /\ (id = 0) <=> (op \in {"crear_auto", "crear_venta",
                                     "listar_autos", "listar_ventas",
                                     "buscar_autos", "buscar_ventas"})
            /\ UNCHANGED <<autos, ventas, seqAuto, seqVenta, ahora, proc>>
            /\ CASE op = "crear_auto" ->
                      ResponderError(op, id, entrada, clase,
                          detalle_crear_auto(error,
                              Val(AutoCreateValidado[entrada].valor)))
                 [] op = "actualizar_auto" ->
                      ResponderError(op, id, entrada, clase,
                          detalle_actualizar_auto(error))
                 [] op = "eliminar_auto" ->
                      ResponderError(op, id, entrada, clase,
                          detalle_eliminar_auto(error))
                 [] op = "crear_venta" ->
                      ResponderError(op, id, entrada, clase,
                          detalle_crear_venta(error,
                              Val(VentaCreateValidado[entrada][ahora].valor)))
                 [] op = "actualizar_venta" ->
                      ResponderError(op, id, entrada, clase,
                          detalle_actualizar_venta(error))
                 [] op = "eliminar_venta" ->
                      ResponderError(op, id, entrada, clase,
                          detalle_eliminar_venta(error))
                 [] OTHER -> Responder(op, id, entrada, clase, 500)

\* Requests served one at a time by a server whose database can be
\* unreachable while a request is handled.
NextFallas ==
    \/ crear_auto
    \/ actualizar_auto
    \/ eliminar_auto
    \/ crear_venta
    \/ actualizar_venta
    \/ eliminar_venta
    \/ obtener_auto
    \/ obtener_venta
    \/ listar_autos
    \/ listar_ventas
    \/ buscar_autos
    \/ buscar_ventas
    \/ enviar_respuesta
    \/ Tick
    \/ \E op \in Escrituras \cup Lecturas : sin_conexion(op)

SpecFallas == Init /\ [][NextFallas]_vars

\* ------------------------------------------------------- storage sessions
\* A worker serves one request at a time with a session of its own. sesion
\* is "ninguna" before Session(motor_db), "abierta" from then on and
\* "cerrada" after close(); gen is the state of the generator get_session().
SinPeticion ==
    [pc |-> "ocioso", ruta |-> "ninguna", sesion |-> "ninguna",
     gen |-> "ninguno", excepcion |-> FALSE]

\* A close() that leaves the session as it is
Session_close_sin_efecto(sesion) == sesion

\* Session.close(): the connection is released; closing again changes nothing
Session_close(sesion) == "cerrada"

\* A request arrives at worker w: for a handler that declares
\* Depends(get_session), or for get_general_stats.
recibir_peticion(w) ==
    \E ruta \in {"Depends", "get_general_stats"} :
        /\ proc[w].pc = "ocioso"
        /\ proc' = [proc EXCEPT ![w] =
                       [SinPeticion EXCEPT !.pc = "get_session",
                                           !.ruta = ruta]]
        /\ UNCHANGED <<autos, ventas, seqAuto, seqVenta, ahora, respuesta>>

\* get_session() runs up to its yield, for the framework that resolves the
\* dependency or for next(session_gen): with Session(motor_db) as db_session:
\* try: yield db_session
get_session(w) ==
    /\ proc[w].pc = "get_session"
    /\ proc' = [proc EXCEPT ![w] =
                   [@ EXCEPT !.sesion = "abierta", !.gen = "suspendido",
                             !.pc = IF proc[w].ruta = "Depends"
                                    THEN "handler" ELSE "try"]]
    /\ UNCHANGED <<autos, ventas, seqAuto, seqVenta, ahora, respuesta>>

\* The handler that received the session returns or raises (an HTTPException
\* or any other exception; a request the framework rejects after resolving
\* the dependency leaves it in one of the two ways), and the framework
\* resumes the generator: with the exception thrown at the yield, or not.
ejecutar_handler(w) ==
    \E lanza \in BOOLEAN :
        /\ proc[w].pc = "handler"
        /\ proc' = [proc EXCEPT ![w] =
                       [@ EXCEPT !.excepcion = lanza,
                                 !.pc = IF lanza THEN "except" ELSE "finally"]]
        /\ UNCHANGED <<autos, ventas, seqAuto, seqVenta, ahora, respuesta>>

\* except Exception as error: db_session.rollback(); print(...); raise
get_session_except(w) ==
    /\ proc[w].pc = "except"
    /\ proc' = [proc EXCEPT ![w] = [@ EXCEPT !.pc = "finally"]]
    /\ UNCHANGED <<autos, ventas, seqAuto, seqVenta, ahora, respuesta>>

\* finally: db_session.close()
get_session_finally(w) ==
    /\ proc[w].pc = "finally"
    /\ proc' = [proc EXCEPT ![w] =
                   [@ EXCEPT !.sesion = Session_close(@), !.pc = "exit"]]
    /\ UNCHANGED <<autos, ventas, seqAuto, seqVenta, ahora, respuesta>>

\* The with block of get_session ends: Session.__exit__ closes the session,
\* the generator is finished and the request is completed.
get_session_exit(w) ==
    /\ proc[w].pc = "exit"
    /\ proc' = [proc EXCEPT ![w] =
                   [@ EXCEPT !.sesion = Session_close(@),
                             !.gen = "terminado", !.pc = "completada"]]
    /\ UNCHANGED <<autos, ventas, seqAuto, seqVenta, ahora, respuesta>>

\* The inner try of get_general_stats: the repositories are built and
\* queried, which returns the summary or raises.
get_general_stats_try(w) ==
    \E lanza \in BOOLEAN :
        /\ proc[w].pc = "try"
        /\ proc' = [proc EXCEPT ![w] =
                       [@ EXCEPT !.excepcion = lanza, !.pc = "finally_stats"]]
        /\ UNCHANGED <<autos, ventas, seqAuto, seqVenta, ahora, respuesta>>

\* finally: db_session.close() of get_general_stats; then the summary is
\* returned, or the outer except raises HTTPException(500), and the request
\* is completed. The generator stays suspended at its yield.
get_general_stats_finally(w) ==
    /\ proc[w].pc = "finally_stats"
    /\ proc' = [proc EXCEPT ![w] =
                   [@ EXCEPT !.sesion = Session_close(@),
                             !.pc = "completada"]]
    /\ UNCHANGED <<autos, ventas, seqAuto, seqVenta, ahora, respuesta>>

\* The generator that get_general_stats left suspended is collected, at
\* some time after the handler has ended: GeneratorExit is raised at the
\* yield, which `except Exception` does not catch, and the finally clause and
\* the with block close the session.
recolectar_generador(w) ==
    /\ proc[w].pc = "completada"
    /\ proc[w].gen = "suspendido"
    /\ proc' = [proc EXCEPT ![w] =
                   [@ EXCEPT !.sesion = Session_close(Session_close(@)),
                             !.gen = "terminado"]]
    /\ UNCHANGED <<autos, ventas, seqAuto, seqVenta, ahora, respuesta>>

\* Worker w is free for its next request.
liberar(w) ==
    /\ proc[w].pc = "completada"
    /\ proc' = [proc EXCEPT ![w] = SinPeticion]
    /\ UNCHANGED <<autos, ventas, seqAuto, seqVenta, ahora, respuesta>>

InitSesiones ==
    /\ autos = TablaVacia
    /\ ventas = TablaVacia
    /\ seqAuto = 0
    /\ seqVenta = 0
    /\ ahora = 0
    /\ respuesta = SinRespuesta
    /\ proc = [w \in {1, 2} |-> SinPeticion]

\* What worker w does once it has a request
servir(w) ==
    \/ get_session(w)
    \/ ejecutar_handler(w)
    \/ get_session_except(w)
    \/ get_session_finally(w)
    \/ get_session_exit(w)
    \/ get_general_stats_try(w)
    \/ get_general_stats_finally(w)
    \/ recolectar_generador(w)
    \/ liberar(w)

NextSesiones ==
    \E w \in {1, 2} :
        \/ recibir_peticion(w)
        \/ servir(w)

\* The event loop and its thread pool run every request they have accepted:
\* a worker that can take a step takes it.
SpecSesiones ==
    /\ InitSesiones
    /\ [][NextSesiones]_vars
    /\ \A w \in {1, 2} : WF_vars(servir(w))

\* ------------------------------------------------------------- statistics
\* The rows that a query over the rows S with ORDER BY clave (ascending),
\* OFFSET 0 and LIMIT limit returns, as a set: the rows that sort before the
\* limit, with as many of the rows that sort equal at the limit as fit.
primeras_filas(S, clave, limit) ==
    LET claves == {clave[x] : x \in S}
        antes_de(t) == Cardinality({x \in S : clave[x] < t})
        iguales(t) == {x \in S : clave[x] = t}
        seguras ==
            UNION {iguales(t) :
                     t \in {u \in claves :
                              antes_de(u) + Cardinality(iguales(u)) <= limit}}
        frontera ==
            UNION {iguales(t) :
                     t \in {u \in claves :
                              /\ antes_de(u) < limit
                              /\ antes_de(u) + Cardinality(iguales(u)) > limit}}
        n == IF Cardinality(S) < limit THEN Cardinality(S) ELSE limit
    IN  {seguras \cup F :
            F \in {E \in SUBSET frontera :
                      Cardinality(seguras) + Cardinality(E) = n}}

\* The limit of the query whose rows the vehicle statistics count
LimiteEstadisticas == 1000

\* The number of rows of filas that hold each value of the column campo: the
\* dict the loop of the handler builds.
conteo(tabla, filas, campo) ==
    [v \in {tabla[i][campo] : i \in filas} |->
        Cardinality({i \in filas : tabla[i][campo] = v})]

\* The first row, in id order, that holds valor in the column campo
primero_visto(tabla, filas, campo, valor) ==
    LET con_valor == {i \in filas : tabla[i][campo] = valor}
    IN  CHOOSE i \in con_valor : \A j \in con_valor : i <= j

\* max(conteo.items(), key=lambda x: x[1])[0] if conteo else None: the first
\* key of maximal count in the order of insertion, which is the order in
\* which the rows, iterated by id, first showed each key.
max_items(tabla, filas, campo) ==
    LET cuenta == conteo(tabla, filas, campo)
    IN  IF DOMAIN cuenta = {} THEN None
        ELSE Some(CHOOSE v \in DOMAIN cuenta :
                \A w \in DOMAIN cuenta :
                    \/ cuenta[v] > cuenta[w]
                    \/ /\ cuenta[v] = cuenta[w]
                       /\ primero_visto(tabla, filas, campo, v)
                              <= primero_visto(tabla, filas, campo, w))

\* GET /autos/stats/summary
obtener_estadisticas_autos ==
    /\ respuesta = SinRespuesta
    /\ \E todos_los_autos \in
              primeras_filas(DOMAIN autos, [i \in DOMAIN autos |-> i],
                             LimiteEstadisticas) :
          Leer("obtener_estadisticas_autos", 0, <<>>,
               [total_autos |-> count_all(autos),
                distribucion_marcas |-> conteo(autos, todos_los_autos, "marca"),
                distribucion_anios |-> conteo(autos, todos_los_autos, "anio"),
                marca_mas_popular |-> max_items(autos, todos_los_autos, "marca"),
                anio_mas_comun |-> max_items(autos, todos_los_autos, "anio")])

\* The calendar: an instant is half a month, and the year after the one in
\* which the process started begins at instant MaxAhora.
year(fecha) == AnioImportacion + 1 + ((fecha.instante - MaxAhora) \div 24)
month(fecha) == (((fecha.instante - MaxAhora) % 24) \div 2) + 1
\* datetime(anio, 1, 1) and datetime(anio, 12, 31, 23, 59, 59)
datetime_inicio(anio) ==
    [instante |-> MaxAhora + 24 * (anio - AnioImportacion - 1),
     tzinfo |-> "None"]
datetime_fin(anio) ==
    [instante |-> MaxAhora + 24 * (anio - AnioImportacion) - 1,
     tzinfo |-> "None"]

\* The limit of the query whose rows the monthly statistics add up
LimiteMensual == 10000

\* VentaRepository.search with skip 0: the rows of the lists the query can
\* return, in whatever order.
Venta_search_filas(tventas, filtros, limit) ==
    LET filas == {i \in DOMAIN tventas :
                     Venta_search_where(tventas[i], filtros)}
    IN  primeras_filas(filas,
            [i \in filas |-> 0 - tventas[i].fecha_venta.instante], limit)

RECURSIVE suma(_)
\* The sum of the values of a function
suma(f) ==
    IF DOMAIN f = {} THEN 0
    ELSE LET x == CHOOSE y \in DOMAIN f : TRUE
         IN  f[x] + suma([y \in DOMAIN f \ {x} |-> f[y]])

\* The sum of float(venta.precio) over the rows filas
total_ingresos(tventas, filas) ==
    suma([p \in {tventas[v].precio : v \in filas} |->
             p * Cardinality({v \in filas : tventas[v].precio = p})])

\* resultado.sort(key=lambda x: (x["año"], x["mes"])) of the buckets, which
\* differ in (año, mes)
sort_anio_mes(buckets) ==
    [k \in 1..Cardinality(buckets) |->
        CHOOSE b \in buckets :
            Cardinality({c \in buckets :
                \/ c.anio < b.anio
                \/ c.anio = b.anio /\ c.mes < b.mes}) = k - 1]

\* Query parameter año (ge=2000, le=2030) of GET /ventas/stats/monthly
AnioFiltroEntradas == {None, Some(1999), Some(AnioImportacion + 1)}

\* GET /ventas/stats/monthly
obtener_estadisticas_mensuales ==
    \E anio \in AnioFiltroEntradas :
        /\ respuesta = SinRespuesta
        /\ IF anio # None /\ (Val(anio) < 2000 \/ Val(anio) > 2030)
           THEN /\ Rechazar("obtener_estadisticas_mensuales", 0,
                            [anio |-> anio])
                /\ UNCHANGED <<ahora, proc>>
           ELSE LET filtros ==
                        IF truthy_num(anio)
                        THEN [SinFiltroVenta EXCEPT
                                 !.fecha_inicio = Some(datetime_inicio(Val(anio))),
                                 !.fecha_fin = Some(datetime_fin(Val(anio)))]
                        ELSE SinFiltroVenta
                IN  \E lista \in Venta_search_filas(ventas, filtros,
                                                    LimiteMensual) :
                       LET clave_mes(v) == <<year(ventas[v].fecha_venta),
                                             month(ventas[v].fecha_venta)>>
                           del_mes(c) == {v \in lista : clave_mes(v) = c}
                           estadisticas_mensuales ==
                               {[anio |-> c[1], mes |-> c[2],
                                 total_ventas |-> Cardinality(del_mes(c)),
                                 total_ingresos |->
                                     total_ingresos(ventas, del_mes(c))] :
                                  c \in {clave_mes(v) : v \in lista}}
                           resultado == sort_anio_mes(estadisticas_mensuales)
                       IN  Leer("obtener_estadisticas_mensuales", 0,
                                [anio |-> anio],
                                [anio_filtro |-> anio,
                                 estadisticas_mensuales |-> resultado,
                                 total_meses |-> Len(resultado)])

\* The size of the tables, other than the ones as large as a limit, with
\* which the statistics are computed
MaxFilas == 3

\* Stored vehicles: row i holds a make and a year, and its own chassis number.
MarcasGuardadas == { <<"B","m","w">>, <<"F","i","a","t">> }
AniosGuardados == { AnioImportacion - 1, AnioImportacion }
fila_auto(i, marca, anio) ==
    [marca |-> marca, modelo |-> <<"X","5">>, anio |-> anio,
     numero_chasis |-> <<"A","B">> \o str_int(10000 + i)]
TablasDeAutos ==
    UNION {{[i \in 1..n |-> fila_auto(i, m[i], a[i])] :
               m \in [1..n -> MarcasGuardadas], a \in [1..n -> AniosGuardados]} :
           n \in 0..MaxFilas}
    \cup {[i \in 1..n |->
              fila_auto(i, IF i % 2 = 1 THEN <<"F","i","a","t">>
                                        ELSE <<"B","m","w">>,
                        AnioImportacion - (i % 2))] :
           n \in {LimiteEstadisticas, LimiteEstadisticas + 1}}

\* Stored sales of vehicle 1: row i holds a sale date and a price.
InstantesGuardados ==
    {0, MaxAhora, MaxAhora + 1, MaxAhora + 2, MaxAhora + 24}
fila_venta(instante, precio) ==
    [nombre_comprador |-> <<"A","n","a">>, precio |-> precio,
     fecha_venta |-> [instante |-> instante, tzinfo |-> "None"],
     auto_id |-> 1]
TablasDeVentas ==
    UNION {{[i \in 1..n |-> fila_venta(t[i], 10000 * i)] :
               t \in [1..n -> InstantesGuardados]} :
           n \in 0..MaxFilas}
    \cup {[i \in 1..n |->
              fila_venta(IF i = 1 THEN 0 ELSE MaxAhora + (i % 3), 20000)] :
           n \in {LimiteMensual, LimiteMensual + 1}}

\* The server is asked for statistics, the tables holding what earlier
\* requests stored.
InitEstadisticas ==
    /\ \/ autos \in TablasDeAutos /\ ventas = TablaVacia
       \/ /\ autos = [i \in 1..1 |->
                         fila_auto(i, <<"B","m","w">>, AnioImportacion)]
          /\ ventas \in TablasDeVentas
    /\ seqAuto = Cardinality(DOMAIN autos)
    /\ seqVenta = Cardinality(DOMAIN ventas)
    /\ ahora = MaxAhora + 24
    /\ respuesta = SinRespuesta
    /\ proc = <<>>

NextEstadisticas ==
    \/ obtener_estadisticas_autos
    \/ obtener_estadisticas_mensuales
    \/ enviar_respuesta

SpecEstadisticas == InitEstadisticas /\ [][NextEstadisticas]_vars

\* ------------------------------------------------- a client reading pages
\* A client reads the list of sales page by page: proc holds the page size
\* limit, the skip of its next request and the ids of the sales it received.
MaxPagina == 2

\* The client asks for its next page.
pedir_pagina ==
    /\ ~proc.fin
    /\ listar_ventas_de(proc.skip, proc.limit)

\* The client receives the page, and goes on while the page says has_next.
recibir_pagina ==
    /\ respuesta.op = "listar_ventas"
    /\ respuesta.status = 200
    /\ proc' = [proc EXCEPT
                   !.recibidas = @ \o [k \in DOMAIN respuesta.cuerpo.items |->
                                          respuesta.cuerpo.items[k].id],
                   !.skip = @ + proc.limit,
                   !.fin = ~respuesta.cuerpo.has_next]
    /\ respuesta' = SinRespuesta
    /\ UNCHANGED <<autos, ventas, seqAuto, seqVenta, ahora>>

\* Stored sales of vehicle 1, of up to MaxFilas rows, dated at two instants
TablasDePaginas ==
    UNION {{[i \in 1..n |-> fila_venta(t[i], 10000 * i)] :
               t \in [1..n -> {0, MaxAhora}]} :
           n \in 0..MaxFilas}

InitPaginas ==
    /\ autos = [i \in 1..1 |-> fila_auto(i, <<"B","m","w">>, AnioImportacion)]
    /\ ventas \in TablasDePaginas
    /\ seqAuto = 1
    /\ seqVenta = Cardinality(DOMAIN ventas)
    /\ ahora = MaxAhora + 24
    /\ respuesta = SinRespuesta
    /\ \E limit \in 1..MaxPagina :
          proc = [limit |-> limit, skip |-> 0, recibidas |-> <<>>,
                  fin |-> FALSE]

NextPaginas ==
    \/ pedir_pagina
    \/ recibir_pagina

SpecPaginas == InitPaginas /\ [][NextPaginas]_vars

\* ------------------------------------------------- concurrent requests
\* Two workers serve vehicle requests at once, each in its own session and
\* transaction (READ COMMITTED): a query sees what is committed when it runs,
\* and commit writes the session's pending insert or the changed columns.
Trabajadores == {1, 2}

\* The bodies the concurrent workers receive: the ones that differ in the
\* chassis number only.
AutoCreateEntradasConc ==
    {e \in AutoCreateEntradas :
        e.marca = <<"b","m","w">> /\ e.anio = AnioImportacion}
AutoUpdateEntradasConc ==
    {e \in AutoUpdateEntradas : DOMAIN e = {"numero_chasis"}}

Ocioso ==
    [pc |-> "ocioso", op |-> "ninguna", id |-> 0, datos |-> <<>>,
     cargado |-> <<>>, clase |-> "ok"]

\* POST /autos/ arrives at worker w: the body is validated.
recibir_crear_auto(w) ==
    \E entrada \in AutoCreateEntradasConc :
        LET nuevo_auto == AutoCreateValidado[entrada]
        IN  /\ proc[w].pc = "ocioso"
            /\ proc' = [proc EXCEPT ![w] =
                  IF ~nuevo_auto.ok
                  THEN [Ocioso EXCEPT !.pc = "fin", !.op = "crear_auto",
                                      !.clase = "ValidationError"]
                  ELSE [Ocioso EXCEPT !.pc = "consultar", !.op = "crear_auto",
                                      !.datos = Val(nuevo_auto.valor)]]
            /\ UNCHANGED <<autos, ventas, seqAuto, seqVenta, ahora, respuesta>>

\* PUT /autos/{auto_id} arrives at worker w: the body is validated and
\* update() loads the vehicle (get_by_id).
recibir_actualizar_auto(w) ==
    \E auto_id \in 1..MaxAutoId, entrada \in AutoUpdateEntradasConc :
        LET datos == AutoUpdateValidado[entrada]
            con_chasis == /\ "numero_chasis" \in DOMAIN entrada
                          /\ Val(datos.valor)["numero_chasis"] # None
                          /\ Val(Val(datos.valor)["numero_chasis"]) # <<>>
        IN  /\ proc[w].pc = "ocioso"
            /\ proc' = [proc EXCEPT ![w] =
                  IF ~datos.ok
                  THEN [Ocioso EXCEPT !.pc = "fin", !.op = "actualizar_auto",
                                      !.id = auto_id,
                                      !.clase = "ValidationError"]
                  ELSE IF Auto_get_by_id(autos, auto_id) = {0}
                  THEN [Ocioso EXCEPT !.pc = "fin", !.op = "actualizar_auto",
                                      !.id = auto_id, !.clase = "NotFound"]
                  ELSE [Ocioso EXCEPT
                           !.pc = IF con_chasis THEN "consultar" ELSE "commit",
                           !.op = "actualizar_auto", !.id = auto_id,
                           !.datos = Val(datos.valor),
                           !.cargado = autos[auto_id]]]
            /\ UNCHANGED <<autos, ventas, seqAuto, seqVenta, ahora, respuesta>>

\* The chassis number a worker's request carries.
chasis_de(p) ==
    IF p.op = "crear_auto" THEN p.datos.numero_chasis
    ELSE Val(p.datos["numero_chasis"])

\* Worker w runs get_by_chasis and the test on vehiculo_existente.
consultar_chasis(w) ==
    /\ proc[w].pc = "consultar"
    /\ \E existente \in first(get_by_chasis(autos, chasis_de(proc[w]))) :
          proc' = [proc EXCEPT ![w] =
              IF existente # 0
                 /\ (proc[w].op = "crear_auto" \/ existente # proc[w].id)
              THEN [@ EXCEPT !.pc = "fin",
                             !.clase = raise_handled(
                                 MsgYaExiste \o chasis_de(proc[w]))]
              ELSE [@ EXCEPT !.pc = "commit"]]
    /\ UNCHANGED <<autos, ventas, seqAuto, seqVenta, ahora, respuesta>>

\* The row an UPDATE leaves: the columns whose value the session changed on
\* the loaded object are written, the others keep what is committed.
flush_update(fila_actual, cargado, objeto) ==
    [f \in DOMAIN fila_actual |->
        IF objeto[f] # Some(cargado[f]) THEN Val(objeto[f])
        ELSE fila_actual[f]]

\* Worker w adds its object and commits.
commit(w) ==
    /\ proc[w].pc = "commit"
    /\ IF proc[w].op = "crear_auto"
       THEN LET r == AutoRepository_create(autos, ventas, seqAuto, seqVenta,
                         proc[w].datos, 0)
            IN  /\ r.seqAuto <= MaxAutoId
                /\ Guardar(r)
                /\ proc' = [proc EXCEPT ![w] =
                              [@ EXCEPT !.pc = "fin", !.id = r.id,
                                        !.clase = r.clase]]
       ELSE LET vehiculo == setattr_campos(proc[w].cargado, proc[w].datos)
            IN  IF tiene_null(vehiculo)
                THEN /\ proc' = [proc EXCEPT ![w] =
                            [@ EXCEPT !.pc = "fin",
                                      !.clase = raise_handled(MsgNotNull)]]
                     /\ UNCHANGED <<autos, ventas, seqAuto, seqVenta>>
                ELSE /\ autos' = [autos EXCEPT ![proc[w].id] =
                            flush_update(@, proc[w].cargado, vehiculo)]
                     /\ proc' = [proc EXCEPT ![w] = [@ EXCEPT !.pc = "fin"]]
                     /\ UNCHANGED <<ventas, seqAuto, seqVenta>>
    /\ UNCHANGED <<ahora, respuesta>>

\* Worker w has sent its response.
terminar(w) ==
    /\ proc[w].pc = "fin"
    /\ proc' = [proc EXCEPT ![w] = Ocioso]
    /\ UNCHANGED <<autos, ventas, seqAuto, seqVenta, ahora, respuesta>>

InitConc ==
    /\ autos = TablaVacia
    /\ ventas = TablaVacia
    /\ seqAuto = 0
    /\ seqVenta = 0
    /\ ahora = 0
    /\ respuesta = SinRespuesta
    /\ proc = [w \in Trabajadores |-> Ocioso]

NextConc ==
    \E w \in Trabajadores :
        \/ recibir_crear_auto(w)
        \/ recibir_actualizar_auto(w)
        \/ consultar_chasis(w)
        \/ commit(w)
        \/ terminar(w)

\* Vehicle requests served by two workers at once.
SpecConc == InitConc /\ [][NextConc]_vars

\* ------------------------------- concurrent deletes of vehicles and sales
\* Two workers serve deletes of vehicles and writes of sales at once, each
\* in its own session and transaction (READ COMMITTED). commit() flushes the
\* pending INSERT, UPDATE or DELETE and commits; the database checks the
\* foreign key venta.auto_id when the statement runs, and a statement that
\* meets a row another transaction has written and not yet committed waits
\* for that transaction to end, so that a flush with its commit is one step.
VentaCreateEntradasConc ==
    {e \in VentaCreateEntradas :
        /\ e.precio = 19999
        /\ e.fecha_venta = [instante |-> 1, tzinfo |-> "None"]}
VentaUpdateEntradasConc ==
    {e \in VentaUpdateEntradas : DOMAIN e = {"auto_id"}}

\* DELETE /autos/{auto_id} arrives at worker w: delete() loads the vehicle.
recibir_eliminar_auto(w) ==
    \E auto_id \in 1..MaxAutoId :
        /\ proc[w].pc = "ocioso"
        /\ proc' = [proc EXCEPT ![w] =
              IF Auto_get_by_id(autos, auto_id) = {0}
              THEN [Ocioso EXCEPT !.pc = "fin", !.op = "eliminar_auto",
                                  !.id = auto_id, !.clase = "NotFound"]
              ELSE [Ocioso EXCEPT !.pc = "contar", !.op = "eliminar_auto",
                                  !.id = auto_id]]
        /\ UNCHANGED <<autos, ventas, seqAuto, seqVenta, ahora, respuesta>>

\* Worker w runs the count of the vehicle's sales and the test on
\* cantidad_ventas.
contar_ventas(w) ==
    /\ proc[w].pc = "contar"
    /\ LET cantidad_ventas ==
               Cardinality({v \in DOMAIN ventas :
                               ventas[v].auto_id = proc[w].id})
       IN  proc' = [proc EXCEPT ![w] =
               IF cantidad_ventas > 0
               THEN [@ EXCEPT !.pc = "fin",
                              !.clase = raise_handled(
                                  MsgNoSePuede1 \o str_int(cantidad_ventas)
                                      \o MsgNoSePuede2)]
               ELSE [@ EXCEPT !.pc = "commit"]]
    /\ UNCHANGED <<autos, ventas, seqAuto, seqVenta, ahora, respuesta>>

\* POST /ventas/ arrives at worker w: the body is validated.
recibir_crear_venta(w) ==
    \E entrada \in VentaCreateEntradasConc :
        LET nueva_venta == VentaCreateValidado[entrada][ahora]
        IN  /\ proc[w].pc = "ocioso"
            /\ proc' = [proc EXCEPT ![w] =
                  IF ~nueva_venta.ok
                  THEN [Ocioso EXCEPT !.pc = "fin", !.op = "crear_venta",
                                      !.clase = "ValidationError"]
                  ELSE [Ocioso EXCEPT !.pc = "consultar", !.op = "crear_venta",
                                      !.datos = Val(nueva_venta.valor)]]
            /\ UNCHANGED <<autos, ventas, seqAuto, seqVenta, ahora, respuesta>>

\* PUT /ventas/{venta_id} arrives at worker w: the body is validated and
\* update() loads the sale (get_by_id).
recibir_actualizar_venta(w) ==
    \E venta_id \in 1..MaxVentaId, entrada \in VentaUpdateEntradasConc :
        LET datos == VentaUpdateValidado[entrada][ahora]
        IN  /\ proc[w].pc = "ocioso"
            /\ proc' = [proc EXCEPT ![w] =
                  IF ~datos.ok
                  THEN [Ocioso EXCEPT !.pc = "fin", !.op = "actualizar_venta",
                                      !.id = venta_id,
                                      !.clase = "ValidationError"]
                  ELSE IF Venta_get_by_id(ventas, venta_id) = {0}
                  THEN [Ocioso EXCEPT !.pc = "fin", !.op = "actualizar_venta",
                                      !.id = venta_id, !.clase = "NotFound"]
                  ELSE [Ocioso EXCEPT
                           !.pc = IF truthy_num(Val(datos.valor)["auto_id"])
                                  THEN "consultar" ELSE "commit",
                           !.op = "actualizar_venta", !.id = venta_id,
                           !.datos = Val(datos.valor),
                           !.cargado = ventas[venta_id]]]
            /\ UNCHANGED <<autos, ventas, seqAuto, seqVenta, ahora, respuesta>>

\* The vehicle a worker's sale request refers to.
auto_de(p) ==
    IF p.op = "crear_venta" THEN p.datos.auto_id ELSE Val(p.datos["auto_id"])

\* Worker w selects the vehicle of the sale and tests `if not vehiculo`.
consultar_auto(w) ==
    /\ proc[w].pc = "consultar"
    /\ proc' = [proc EXCEPT ![w] =
          IF Auto_get_by_id(autos, auto_de(proc[w])) = {0}
          THEN [@ EXCEPT !.pc = "fin",
                         !.clase = raise_handled(
                             MsgNoExiste \o str_int(auto_de(proc[w])))]
          ELSE [@ EXCEPT !.pc = "commit"]]
    /\ UNCHANGED <<autos, ventas, seqAuto, seqVenta, ahora, respuesta>>

\* Worker w fails at commit with the error whose str() is msg, and rolls
\* back.
fallar_commit(w, msg) ==
    proc' = [proc EXCEPT ![w] =
                [@ EXCEPT !.pc = "fin", !.clase = raise_handled(msg)]]

\* session.delete(vehiculo); commit() of worker w. The flush loads the sales
\* of the vehicle (relationship Auto.ventas, no delete cascade) to set their
\* auto_id to NULL, which the NOT NULL column refuses; the DELETE of a vehicle
\* that a sale loaded by no one references breaks the foreign key; the DELETE
\* of a vehicle already deleted matches no row.
commit_eliminar_auto(w) ==
    LET quedan == [i \in DOMAIN autos \ {proc[w].id} |-> autos[i]]
    IN  /\ proc[w].pc = "commit"
        /\ proc[w].op = "eliminar_auto"
        /\ IF proc[w].id \notin DOMAIN autos
           THEN /\ fallar_commit(w, MsgStale)
                /\ UNCHANGED autos
           ELSE IF \E v \in DOMAIN ventas : ~fk_auto(quedan, ventas[v])
           THEN /\ \E msg \in {MsgNotNull, MsgFKAuto} : fallar_commit(w, msg)
                /\ UNCHANGED autos
           ELSE /\ autos' = quedan
                /\ proc' = [proc EXCEPT ![w] = [@ EXCEPT !.pc = "fin"]]
        /\ UNCHANGED <<ventas, seqAuto, seqVenta, ahora, respuesta>>

\* Venta.model_validate(nueva_venta); add(venta); commit() of worker w
commit_crear_venta(w) ==
    LET venta == VentaBase(proc[w].datos, ahora)
    IN  /\ proc[w].pc = "commit"
        /\ proc[w].op = "crear_venta"
        /\ IF ~venta.ok
           THEN /\ fallar_commit(w, MsgValidation)
                /\ UNCHANGED <<ventas, seqVenta>>
           ELSE /\ seqVenta < MaxVentaId
                /\ seqVenta' = seqVenta + 1
                /\ IF ~fk_auto(autos, Val(venta.valor))
                   THEN /\ fallar_commit(w, MsgFK)
                        /\ UNCHANGED ventas
                   ELSE /\ ventas' = ventas @@ ((seqVenta + 1) :> Val(venta.valor))
                        /\ proc' = [proc EXCEPT ![w] =
                                       [@ EXCEPT !.pc = "fin",
                                                 !.id = seqVenta + 1]]
        /\ UNCHANGED <<autos, seqAuto, ahora, respuesta>>

\* setattr of the supplied fields; add(venta); commit() of worker w
commit_actualizar_venta(w) ==
    LET venta == setattr_campos(proc[w].cargado, proc[w].datos)
    IN  /\ proc[w].pc = "commit"
        /\ proc[w].op = "actualizar_venta"
        /\ IF tiene_null(venta)
           THEN /\ fallar_commit(w, MsgNotNull)
                /\ UNCHANGED ventas
           ELSE LET fila == flush_update(ventas[proc[w].id], proc[w].cargado,
                                         venta)
                IN  IF ~fk_auto(autos, fila)
                    THEN /\ fallar_commit(w, MsgFK)
                         /\ UNCHANGED ventas
                    ELSE /\ ventas' = [ventas EXCEPT ![proc[w].id] = fila]
                         /\ proc' = [proc EXCEPT ![w] =
                                        [@ EXCEPT !.pc = "fin"]]
        /\ UNCHANGED <<autos, seqAuto, seqVenta, ahora, respuesta>>

\* The vehicles 1..MaxAutoId are stored, and no sale.
InitConcVentas ==
    /\ autos = [i \in 1..MaxAutoId |->
                   fila_auto(i, <<"B","m","w">>, AnioImportacion)]
    /\ ventas = TablaVacia
    /\ seqAuto = MaxAutoId
    /\ seqVenta = 0
    /\ ahora = MaxAhora
    /\ respuesta = SinRespuesta
    /\ proc = [w \in Trabajadores |-> Ocioso]

NextConcVentas ==
    \E w \in Trabajadores :
        \/ recibir_eliminar_auto(w)
        \/ contar_ventas(w)
        \/ recibir_crear_venta(w)
        \/ recibir_actualizar_venta(w)
        \/ consultar_auto(w)
        \/ commit_eliminar_auto(w)
        \/ commit_crear_venta(w)
        \/ commit_actualizar_venta(w)
        \/ terminar(w)

\* Deletes of vehicles and writes of sales served by two workers at once.
SpecConcVentas == InitConcVentas /\ [][NextConcVentas]_vars

\* ------------------------------------------------------------ properties
\* What a request that reached the repository and failed there answers with.
ClasesDeFallo == {"IntegrityError", "DatabaseError", "ConnectionError"}

\* C1: with requests served one at a time, no two stored vehicles have the
\* same chassis number.
C1_ChasisUnico ==
    \A i, j \in DOMAIN autos :
        i # j => autos[i].numero_chasis # autos[j].numero_chasis

\* C1 witness: two vehicles are stored and an update that would have given
\* one the chassis number of the other was refused.
C1_Testigo ==
    /\ Cardinality(DOMAIN autos) = 2
    /\ respuesta.op = "actualizar_auto"
    /\ respuesta.clase \in ClasesDeFallo
    /\ "numero_chasis" \in DOMAIN respuesta.entrada
    /\ respuesta.entrada["numero_chasis"] # None
    /\ \E i \in DOMAIN autos :
          /\ i # respuesta.id
          /\ autos[i].numero_chasis
                 = upper(Val(respuesta.entrada["numero_chasis"]))

\* C2: a vehicle create whose chassis number equals, ignoring case, that of
\* a stored vehicle fails with IntegrityError (DuplicateKey) and stores no new
\* vehicle, whatever the chassis number.
C2_DuplicadoEsIntegrityError ==
    [][(/\ respuesta'.op = "crear_auto"
        /\ respuesta'.clase # "ValidationError"
        /\ \E i \in DOMAIN autos :
              upper(autos[i].numero_chasis)
                  = upper(respuesta'.entrada.numero_chasis))
       => (respuesta'.clase = "IntegrityError" /\ autos' = autos)]_vars

\* C3: with two workers creating or updating vehicles at once, no reachable
\* state holds two vehicles with the same chassis number.
C3_ChasisUnicoConcurrente ==
    Cardinality({autos[i].numero_chasis : i \in DOMAIN autos})
        = Cardinality(DOMAIN autos)

\* C4: with requests served one at a time, the auto_id of every stored sale
\* is the id of a stored vehicle.
C4_VentaReferenciaAuto ==
    \A v \in DOMAIN ventas : ventas[v].auto_id \in DOMAIN autos

\* C4 witness: a sale is stored and an update pointing it at vehicle id 0,
\* which update() does not look up, was refused at commit.
C4_Testigo ==
    /\ respuesta.op = "actualizar_venta"
    /\ respuesta.id \in DOMAIN ventas
    /\ "auto_id" \in DOMAIN respuesta.entrada
    /\ respuesta.entrada["auto_id"] = Some(0)
    /\ respuesta.clase = "IntegrityError"

\* C5: vehicle delete answers not found for an absent id; fails with
\* IntegrityError (ReferentialIntegrity) and keeps the vehicle when a sale
\* references it; otherwise removes exactly that vehicle and succeeds.
C5_EliminarAuto ==
    [][respuesta'.op = "eliminar_auto" =>
          LET auto_id == respuesta'.id
              con_ventas == \E v \in DOMAIN ventas : ventas[v].auto_id = auto_id
          IN  /\ auto_id \notin DOMAIN autos =>
                    /\ respuesta'.clase = "NotFound"
                    /\ respuesta'.status = 404
                    /\ autos' = autos
              /\ (auto_id \in DOMAIN autos /\ con_ventas) =>
                    /\ respuesta'.clase = "IntegrityError"
                    /\ autos' = autos
              /\ (auto_id \in DOMAIN autos /\ ~con_ventas) =>
                    /\ respuesta'.clase = "ok"
                    /\ autos' = [i \in DOMAIN autos \ {auto_id} |-> autos[i]]
      ]_vars

\* C6: a sale create whose auto_id is not the id of a stored vehicle fails
\* with IntegrityError (ReferentialIntegrity) and stores no sale; a sale
\* create with a valid body referencing a stored vehicle succeeds.
C6_CrearVenta ==
    [][(/\ respuesta'.op = "crear_venta"
        /\ respuesta'.clase \notin {"ValidationError", "TypeError"})
       => IF respuesta'.entrada.auto_id \notin DOMAIN autos
          THEN respuesta'.clase = "IntegrityError" /\ ventas' = ventas
          ELSE respuesta'.clase = "ok"]_vars

\* C7: a sale update whose patch supplies an auto_id that is the id of no
\* stored vehicle fails with IntegrityError (ReferentialIntegrity), whatever
\* the integer, and the sale keeps its fields.
C7_ActualizarVentaAutoAusente ==
    [][(/\ respuesta'.op = "actualizar_venta"
        /\ respuesta'.clase # "ValidationError"
        /\ respuesta'.id \in DOMAIN ventas
        /\ "auto_id" \in DOMAIN respuesta'.entrada
        /\ respuesta'.entrada["auto_id"] # None
        /\ Val(respuesta'.entrada["auto_id"]) \notin DOMAIN autos)
       => (respuesta'.clase = "IntegrityError" /\ ventas' = ventas)]_vars

\* C8: every stored sale has a price strictly greater than 0.
C8_PrecioPositivo ==
    \A v \in DOMAIN ventas : ventas[v].precio > 0

\* The price a sale request submits: None when it submits none.
precio_enviado(r) ==
    IF r.op = "crear_venta" THEN Some(r.entrada.precio)
    ELSE IF r.op = "actualizar_venta" /\ "precio" \in DOMAIN r.entrada
    THEN r.entrada["precio"]
    ELSE None

\* C9: the price an accepted sale create or update stores is the submitted
\* price rounded to 2 decimal places (a multiple of 0.01 less than 0.005
\* away from it), and a body with a submitted price of 0 or less is refused
\* before the handler runs, with nothing stored.
C9_PrecioRedondeado ==
    [][LET enviado == precio_enviado(respuesta')
       IN  enviado # None =>
              /\ respuesta'.clase = "ok" =>
                    LET guardado == ventas'[respuesta'.id].precio
                    IN  /\ guardado % 10 = 0
                        /\ guardado - 5 < Val(enviado)
                        /\ Val(enviado) < guardado + 5
              /\ Val(enviado) <= 0 =>
                    /\ respuesta'.clase \in {"ValidationError", "TypeError"}
                    /\ ventas' = ventas
      ]_vars

\* C9 witness: a create submitting 19.999 was accepted and stored 20.00.
C9_Testigo ==
    /\ respuesta.op = "crear_venta"
    /\ respuesta.clase = "ok"
    /\ respuesta.entrada.precio = 19999
    /\ ventas[respuesta.id].precio = 20000

\* C10: every stored vehicle has a chassis number equal to its upper-case
\* form and a make and model equal to their trimmed, title-cased form.
C10_AutoNormalizado ==
    \A i \in DOMAIN autos :
        /\ autos[i].numero_chasis = upper(autos[i].numero_chasis)
        /\ autos[i].marca = title(strip(autos[i].marca))
        /\ autos[i].modelo = title(strip(autos[i].modelo))

\* C10 witness: an update submitting the make " fIAT" and a lower-case
\* chassis number was accepted and stored "Fiat" and the upper-case number.
C10_Testigo ==
    /\ respuesta.op = "actualizar_auto"
    /\ respuesta.clase = "ok"
    /\ DOMAIN respuesta.entrada = {"marca", "numero_chasis"}
    /\ respuesta.entrada["marca"] = Some(<<" ","f","I","A","T">>)
    /\ respuesta.entrada["numero_chasis"] = Some(<<"u","n","i","q","u","e">>)
    /\ autos[respuesta.id].marca = <<"F","i","a","t">>
    /\ autos[respuesta.id].numero_chasis = <<"U","N","I","Q","U","E">>

\* C11: an update of a vehicle or of a sale leaves every field of the target
\* record that the patch does not supply, every other vehicle and every
\* other sale as they were, and adds or removes no record.
C11_ActualizacionParcial ==
    [][/\ respuesta'.op = "actualizar_auto" =>
              /\ ventas' = ventas
              /\ DOMAIN autos' = DOMAIN autos
              /\ \A i \in DOMAIN autos : \A f \in DOMAIN autos[i] :
                    (i # respuesta'.id \/ f \notin DOMAIN respuesta'.entrada)
                        => autos'[i][f] = autos[i][f]
       /\ respuesta'.op = "actualizar_venta" =>
              /\ autos' = autos
              /\ DOMAIN ventas' = DOMAIN ventas
              /\ \A i \in DOMAIN ventas : \A f \in DOMAIN ventas[i] :
                    (i # respuesta'.id \/ f \notin DOMAIN respuesta'.entrada)
                        => ventas'[i][f] = ventas[i][f]
      ]_vars

\* C11 witness: with two vehicles and a sale stored, an update supplying only
\* the make was accepted and stored it, the other vehicle keeping its make.
C11_Testigo ==
    /\ respuesta.op = "actualizar_auto"
    /\ respuesta.clase = "ok"
    /\ DOMAIN respuesta.entrada = {"marca"}
    /\ respuesta.entrada["marca"] = Some(<<" ","f","I","A","T">>)
    /\ Cardinality(DOMAIN autos) = 2
    /\ DOMAIN ventas # {}
    /\ autos[respuesta.id].marca = <<"F","i","a","t">>
    /\ \E i \in DOMAIN autos : autos[i].marca = <<"B","m","w">>

\* C12: a vehicle update with a valid body answers not found and changes
\* nothing when the id is absent; is refused, changing nothing, when the
\* patch carries the chassis number, in any letter case, of another stored
\* vehicle; and is accepted when the patch carries values only and its
\* chassis number is the target's own.
C12_ActualizarAuto ==
    [][(respuesta'.op = "actualizar_auto"
        /\ respuesta'.clase # "ValidationError") =>
          LET auto_id == respuesta'.id
              entrada == respuesta'.entrada
              con_chasis == /\ "numero_chasis" \in DOMAIN entrada
                            /\ entrada["numero_chasis"] # None
              chasis == upper(Val(entrada["numero_chasis"]))
          IN  /\ auto_id \notin DOMAIN autos =>
                    /\ respuesta'.clase = "NotFound"
                    /\ respuesta'.status = 404
                    /\ autos' = autos /\ ventas' = ventas
              /\ (/\ auto_id \in DOMAIN autos
                  /\ con_chasis
                  /\ \E i \in DOMAIN autos \ {auto_id} :
                        upper(autos[i].numero_chasis) = chasis) =>
                    /\ respuesta'.clase \in ClasesDeFallo
                    /\ respuesta'.status = 400
                    /\ autos' = autos /\ ventas' = ventas
              /\ (/\ auto_id \in DOMAIN autos
                  /\ con_chasis
                  /\ \A f \in DOMAIN entrada : entrada[f] # None
                  /\ upper(autos[auto_id].numero_chasis) = chasis) =>
                    /\ respuesta'.clase = "ok"
                    /\ respuesta'.status = 200
                    /\ autos'[auto_id].numero_chasis
                           = autos[auto_id].numero_chasis
      ]_vars

\* C12 witness: vehicle "AB123" is stored and an update of the other stored
\* vehicle, "UNIQUE", to the chassis number "ab123" was refused.
C12_Testigo ==
    /\ respuesta.op = "actualizar_auto"
    /\ respuesta.status = 400
    /\ DOMAIN respuesta.entrada = {"numero_chasis"}
    /\ respuesta.entrada["numero_chasis"] = Some(<<"a","b","1","2","3">>)
    /\ respuesta.id \in DOMAIN autos
    /\ autos[respuesta.id].numero_chasis = <<"U","N","I","Q","U","E">>
    /\ \E i \in DOMAIN autos : autos[i].numero_chasis = <<"A","B","1","2","3">>

\* The sale date a sale request submits: None when it submits none.
fecha_enviada(r) ==
    IF r.op = "crear_venta" THEN Some(r.entrada.fecha_venta)
    ELSE IF r.op = "actualizar_venta" /\ "fecha_venta" \in DOMAIN r.entrada
    THEN r.entrada["fecha_venta"]
    ELSE None

\* C13: a sale create or update whose sale date is later than the current
\* time is rejected as invalid with nothing stored; one whose sale date is
\* the current time or earlier is accepted (the create having a positive
\* price and a stored vehicle, the update supplying the date only, for a
\* stored sale); and an accepted one stores no date later than the current
\* time.
C13_FechaNoFutura ==
    [][LET enviada == fecha_enviada(respuesta')
           entrada == respuesta'.entrada
       IN  enviada # None =>
              /\ Val(enviada).instante > ahora =>
                    /\ respuesta'.clase = "ValidationError"
                    /\ ventas' = ventas
              /\ (/\ Val(enviada).instante <= ahora
                  /\ respuesta'.op = "crear_venta"
                  /\ entrada.precio >= 5
                  /\ entrada.auto_id \in DOMAIN autos) =>
                    respuesta'.clase = "ok"
              /\ (/\ Val(enviada).instante <= ahora
                  /\ respuesta'.op = "actualizar_venta"
                  /\ DOMAIN entrada = {"fecha_venta"}
                  /\ respuesta'.id \in DOMAIN ventas) =>
                    respuesta'.clase = "ok"
              /\ respuesta'.clase = "ok" =>
                    ventas'[respuesta'.id].fecha_venta.instante <= ahora
      ]_vars

\* The calendar year at time now: the year changes at the last instant of
\* the clock.
current_year(now) == AnioImportacion + (IF now >= MaxAhora THEN 1 ELSE 0)

\* The year a vehicle request submits: None when it submits none.
anio_enviado(r) ==
    IF r.op = "crear_auto" THEN Some(r.entrada.anio)
    ELSE IF r.op = "actualizar_auto" /\ "anio" \in DOMAIN r.entrada
    THEN r.entrada["anio"]
    ELSE None

\* C14: a vehicle create or update is rejected as invalid when its year is
\* outside [1900, current_year], and is not when its year is inside and its
\* other fields are valid, current_year being the calendar year when the
\* request is handled.
C14_AnioEnRango ==
    [][LET enviado == anio_enviado(respuesta')
           entrada == respuesta'.entrada
           otros_validos ==
               IF respuesta'.op = "crear_auto"
               THEN AutoBase([entrada EXCEPT !.anio = AnioMinimo]).ok
               ELSE AutoUpdate([entrada EXCEPT !["anio"] = None]).ok
       IN  enviado # None =>
              IF Val(enviado) < AnioMinimo
                 \/ Val(enviado) > current_year(ahora)
              THEN respuesta'.clase = "ValidationError"
              ELSE otros_validos => respuesta'.clase # "ValidationError"
      ]_vars

\* C15: when an update supplying a value for one validated field alone is
\* handled for a stored record, it is accepted (the repository commits it)
\* exactly when a create whose body is that record with the field set to
\* the same value would be accepted, and both store the same value in the
\* field. (For a vehicle the chassis number is that of no other stored
\* vehicle, and the create is taken without its lookup of the chassis
\* number.)
C15_MismaValidacion ==
    [][LET id == respuesta'.id
           entrada == respuesta'.entrada
       IN  /\ (/\ respuesta'.op = "actualizar_venta"
               /\ id \in DOMAIN ventas
               /\ \E f \in {"nombre_comprador", "precio", "fecha_venta"} :
                     DOMAIN entrada = {f} /\ entrada[f] # None) =>
                 LET f == CHOOSE g \in DOMAIN entrada : TRUE
                     cuerpo == [ventas[id] EXCEPT ![f] = Val(entrada[f])]
                     nueva_venta == VentaBase(cuerpo, ahora)
                     r == VentaRepository_create(autos, ventas, seqAuto,
                              seqVenta, Val(nueva_venta.valor), ahora)
                     creada == nueva_venta.ok /\ r.estado = "ok"
                 IN  /\ (respuesta'.clase \in {"ok", "ValidationErrorDeRespuesta"})
                            <=> creada
                     /\ creada => ventas'[id][f] = r.ventas[r.id][f]
           /\ (/\ respuesta'.op = "actualizar_auto"
               /\ id \in DOMAIN autos
               /\ \E f \in {"marca", "modelo", "anio", "numero_chasis"} :
                     DOMAIN entrada = {f} /\ entrada[f] # None
               /\ "numero_chasis" \in DOMAIN entrada =>
                     \A i \in DOMAIN autos \ {id} :
                        autos[i].numero_chasis
                            # upper(Val(entrada["numero_chasis"]))) =>
                 LET f == CHOOSE g \in DOMAIN entrada : TRUE
                     cuerpo == [autos[id] EXCEPT ![f] = Val(entrada[f])]
                     nuevo_auto == AutoBase(cuerpo)
                     r == AutoRepository_create(autos, ventas, seqAuto,
                              seqVenta, Val(nuevo_auto.valor), 0)
                     creado == nuevo_auto.ok /\ r.estado = "ok"
                 IN  /\ (respuesta'.clase \in {"ok", "ValidationErrorDeRespuesta"})
                            <=> creado
                     /\ creado => autos'[id][f] = r.autos[r.id][f]
      ]_vars

\* C16: a list response of vehicles or of sales carries the number of stored
\* records as total; its has_next is true exactly when records remain after
\* the skipped and the returned ones; and with skip equal to the number of
\* stored records the list is answered, has no items and has_next false.
C16_Paginacion ==
    /\ (/\ respuesta.op \in {"listar_autos", "listar_ventas"}
        /\ respuesta.entrada.skip =
               Cardinality(DOMAIN (IF respuesta.op = "listar_autos"
                                   THEN autos ELSE ventas))) =>
           respuesta.status = 200
    /\ (respuesta.op \in {"listar_autos", "listar_ventas"}
            /\ respuesta.status = 200) =>
        LET tabla == IF respuesta.op = "listar_autos" THEN autos ELSE ventas
            N == Cardinality(DOMAIN tabla)
            cuerpo == respuesta.cuerpo
        IN  /\ cuerpo.total = N
            /\ cuerpo.has_next <=> (cuerpo.skip + cuerpo.limit < cuerpo.total)
            /\ cuerpo.has_next <=> (cuerpo.skip + Len(cuerpo.items) < N)
            /\ cuerpo.skip = N => (cuerpo.items = <<>> /\ ~cuerpo.has_next)

\* C16 witness: two vehicles are stored and the list with skip 0 and limit 1
\* returned one of them with has_next true.
C16_Testigo ==
    /\ respuesta.op = "listar_autos"
    /\ Cardinality(DOMAIN autos) = 2
    /\ respuesta.cuerpo.skip = 0
    /\ respuesta.cuerpo.limit = 1
    /\ Len(respuesta.cuerpo.items) = 1
    /\ respuesta.cuerpo.has_next

\* C17: the vehicle list holds, at position k, the stored vehicle that has
\* skip + k - 1 stored vehicles with a smaller id, and holds limit items or
\* as many as the stored vehicles after the skipped ones, if fewer.
C17_ListaDeAutos ==
    respuesta.op = "listar_autos" =>
        LET items == respuesta.cuerpo.items
            skip == respuesta.entrada.skip
            limit == respuesta.entrada.limit
            N == Cardinality(DOMAIN autos)
            quedan == IF N > skip THEN N - skip ELSE 0
        IN  /\ Len(items) = IF quedan < limit THEN quedan ELSE limit
            /\ \A k \in 1..Len(items) :
                  /\ items[k].id \in DOMAIN autos
                  /\ items[k] = [id |-> items[k].id] @@ autos[items[k].id]
                  /\ Cardinality({j \in DOMAIN autos : j < items[k].id})
                         = skip + k - 1

\* C17 witness: two vehicles are stored and the list with skip 1 and limit 2
\* returned the second one only.
C17_Testigo ==
    /\ respuesta.op = "listar_autos"
    /\ Cardinality(DOMAIN autos) = 2
    /\ respuesta.entrada = [skip |-> 1, limit |-> 2]
    /\ Len(respuesta.cuerpo.items) = 1
    /\ \E i \in DOMAIN autos : i < respuesta.cuerpo.items[1].id

\* C18: an answered vehicle search returns stored vehicles that satisfy
\* every filter supplied (make and model as substrings ignoring case, year
\* >= year-min, year <= year-max), ordered by make, model and year, and they
\* are the ones at positions skip+1 .. skip+limit of all the stored vehicles
\* that satisfy the filters, in that order; with no filter supplied these are
\* all the stored vehicles.
C18_BusquedaDeAutos ==
    (respuesta.op = "buscar_autos" /\ respuesta.status = 200) =>
        LET filtros == respuesta.entrada.filtros
            skip == respuesta.entrada.skip
            limit == respuesta.entrada.limit
            items == respuesta.cuerpo.items
            cumple(fila) ==
                /\ filtros.marca # None =>
                       Contains(lower(fila.marca), lower(Val(filtros.marca)))
                /\ filtros.modelo # None =>
                       Contains(lower(fila.modelo), lower(Val(filtros.modelo)))
                /\ filtros.anio_min # None =>
                       fila.anio >= Val(filtros.anio_min)
                /\ filtros.anio_max # None =>
                       fila.anio <= Val(filtros.anio_max)
            esperados == {i \in DOMAIN autos : cumple(autos[i])}
            N == Cardinality(esperados)
            quedan == IF N > skip THEN N - skip ELSE 0
        IN  /\ Len(items) = IF quedan < limit THEN quedan ELSE limit
            /\ \A k \in 1..Len(items) :
                  /\ items[k].id \in esperados
                  /\ items[k] = [id |-> items[k].id] @@ autos[items[k].id]
                  /\ Cardinality({i \in esperados :
                         Auto_search_antes(autos[i], items[k])}) <= skip + k - 1
                  /\ Cardinality({i \in esperados :
                         ~Auto_search_antes(items[k], autos[i])}) >= skip + k
            /\ \A k, l \in 1..Len(items) :
                  k < l => /\ items[k].id # items[l].id
                           /\ ~Auto_search_antes(items[l], items[k])

\* C19: an answered sale search returns stored sales that satisfy every
\* filter supplied (buyer name as a substring, price >= min, price <= max,
\* date >= start, date <= end, vehicle id equal), ordered by sale date
\* descending, and they are the ones at positions skip+1 .. skip+limit of
\* all the stored sales that satisfy the filters, in that order; so a search
\* for a vehicle id that no sale references returns no sale.
C19_BusquedaDeVentas ==
    (respuesta.op = "buscar_ventas" /\ respuesta.status = 200) =>
        LET filtros == respuesta.entrada.filtros
            skip == respuesta.entrada.skip
            limit == respuesta.entrada.limit
            items == respuesta.cuerpo.items
            cumple(fila) ==
                /\ filtros.nombre_comprador # None =>
                       Contains(lower(fila.nombre_comprador),
                                lower(Val(filtros.nombre_comprador)))
                /\ filtros.precio_min # None =>
                       fila.precio >= Val(filtros.precio_min)
                /\ filtros.precio_max # None =>
                       fila.precio <= Val(filtros.precio_max)
                /\ filtros.fecha_inicio # None =>
                       fila.fecha_venta.instante
                           >= Val(filtros.fecha_inicio).instante
                /\ filtros.fecha_fin # None =>
                       fila.fecha_venta.instante
                           <= Val(filtros.fecha_fin).instante
                /\ filtros.auto_id # None => fila.auto_id = Val(filtros.auto_id)
            esperadas == {i \in DOMAIN ventas : cumple(ventas[i])}
            N == Cardinality(esperadas)
            quedan == IF N > skip THEN N - skip ELSE 0
            despues(a, b) == a.fecha_venta.instante > b.fecha_venta.instante
        IN  /\ Len(items) = IF quedan < limit THEN quedan ELSE limit
            /\ \A k \in 1..Len(items) :
                  /\ items[k].id \in esperadas
                  /\ items[k] = [id |-> items[k].id] @@ ventas[items[k].id]
                  /\ Cardinality({i \in esperadas :
                         despues(ventas[i], items[k])}) <= skip + k - 1
                  /\ Cardinality({i \in esperadas :
                         ~despues(items[k], ventas[i])}) >= skip + k
            /\ \A k, l \in 1..Len(items) :
                  k < l => /\ items[k].id # items[l].id
                           /\ ~despues(items[l], items[k])

C21_NoEncontrado ==
    [][(/\ respuesta'.op \in {"obtener_auto", "actualizar_auto",
                             "eliminar_auto", "obtener_venta",
                             "actualizar_venta", "eliminar_venta"}
        /\ respuesta'.clase \notin {"ValidationError", "TypeError"}) =>
          LET tabla == IF respuesta'.op \in {"obtener_auto", "actualizar_auto",
                                            "eliminar_auto"}
                       THEN autos ELSE ventas
          IN  (respuesta'.status = 404) <=> (respuesta'.id \notin DOMAIN tabla)
      ]_vars

\* C21 witness: with a vehicle stored, an update with a non-empty patch for
\* an id that no vehicle has was answered 404.
C21_Testigo ==
    /\ respuesta.op = "actualizar_auto"
    /\ respuesta.status = 404
    /\ DOMAIN respuesta.entrada # {}
    /\ autos # TablaVacia
    /\ respuesta.id \notin DOMAIN autos

\* C22: a request during which the storage failed with a lost connection is
\* answered 500.
C22_FalloDeAlmacenamiento ==
    respuesta.clase = "ConnectionError" => respuesta.status = 500

\* What a descriptive detail says of each refusal
DiceNoExiste == <<"n","o"," ","e","x","i","s","t","e"," ","u","n"," ","v","e","h","i","c","u","l","o"," ","c","o","n"," ","i","d",":"," ">>
DiceClaveForanea == <<"V","i","o","l","a","c","i","o","n"," ","d","e"," ","c","l","a","v","e"," ","f","o","r","a","n","e","a",":"," ">>

\* C23: a vehicle create or update whose chassis number another stored
\* vehicle has, a delete of a vehicle that stored sales reference, and a
\* sale create or update naming a vehicle that is not stored, are answered
\* 400 with a detail that names the cause: the chassis number that exists,
\* the associated sales, the vehicle that does not exist (or the foreign key
\* it violates).
C23_ErroresDescriptivos ==
    [][LET op == respuesta'.op
           id == respuesta'.id
           entrada == respuesta'.entrada
           aceptada == respuesta'.clase \notin {"ValidationError", "TypeError"}
           chasis_de_otro(c, propio) ==
               \E i \in DOMAIN autos \ {propio} : autos[i].numero_chasis = c
       IN  /\ (/\ op = "crear_auto" /\ aceptada
               /\ chasis_de_otro(upper(entrada.numero_chasis), 0)) =>
                  /\ respuesta'.status = 400
                  /\ respuesta'.detalle.texto = "El numero de chasis ya existe: "
                  /\ respuesta'.detalle.valor = upper(entrada.numero_chasis)
           /\ (/\ op = "actualizar_auto" /\ aceptada /\ id \in DOMAIN autos
               /\ "numero_chasis" \in DOMAIN entrada
               /\ entrada["numero_chasis"] # None
               /\ chasis_de_otro(upper(Val(entrada["numero_chasis"])), id)) =>
                  /\ respuesta'.status = 400
                  /\ respuesta'.detalle.texto = "El numero de chasis ya existe"
           /\ (/\ op = "eliminar_auto" /\ id \in DOMAIN autos
               /\ \E v \in DOMAIN ventas : ventas[v].auto_id = id) =>
                  /\ respuesta'.status = 400
                  /\ respuesta'.detalle.texto =
                         "No se puede eliminar el auto porque tiene ventas asociadas"
           /\ (/\ op = "crear_venta" /\ aceptada
               /\ entrada.auto_id \notin DOMAIN autos) =>
                  /\ respuesta'.status = 400
                  /\ \/ respuesta'.detalle.texto
                            = "El auto con ID {auto_id} no existe"
                     \/ Contains(respuesta'.detalle.valor, DiceNoExiste)
           /\ (/\ op = "actualizar_venta" /\ aceptada /\ id \in DOMAIN ventas
               /\ "auto_id" \in DOMAIN entrada
               /\ entrada["auto_id"] # None
               /\ Val(entrada["auto_id"]) \notin DOMAIN autos) =>
                  /\ respuesta'.status = 400
                  /\ \/ respuesta'.detalle.texto
                            = "El auto especificado no existe"
                     \/ Contains(respuesta'.detalle.valor, DiceNoExiste)
                     \/ Contains(respuesta'.detalle.valor, DiceClaveForanea)
      ]_vars

\* C23 witness: the delete of a vehicle that a stored sale references was
\* answered 400 with the detail of the associated sales.
C23_Testigo ==
    /\ respuesta.op = "eliminar_auto"
    /\ respuesta.status = 400
    /\ respuesta.id \in DOMAIN autos
    /\ \E v \in DOMAIN ventas : ventas[v].auto_id = respuesta.id
    /\ respuesta.detalle.texto =
           "No se puede eliminar el auto porque tiene ventas asociadas"

\* C27: a vehicle or sale create, update or delete that is answered with an
\* error or with not found leaves the stored vehicles and sales as they
\* were.
C27_ErrorSinCambios ==
    [][(respuesta'.op \in Escrituras /\ respuesta'.status >= 400) =>
          (autos' = autos /\ ventas' = ventas)
      ]_vars

\* C25: the vehicle statistics count every stored vehicle once in the map of
\* makes and once in the map of years, so that the counts of each map add up
\* to total_autos, and the most frequent make and year have the greatest
\* count of their map, a tie going to the value of the vehicle of least id.
C25_EstadisticasDeAutos ==
    (respuesta.op = "obtener_estadisticas_autos" /\ respuesta.status = 200) =>
        LET c == respuesta.cuerpo
            con(campo, v) == {i \in DOMAIN autos : autos[i][campo] = v}
            bien_contado(mapa, campo) ==
                /\ DOMAIN mapa = {autos[i][campo] : i \in DOMAIN autos}
                /\ \A v \in DOMAIN mapa : mapa[v] = Cardinality(con(campo, v))
                /\ suma(mapa) = c.total_autos
            el_mayor(mapa, campo, elegido) ==
                IF DOMAIN autos = {} THEN elegido = None
                ELSE /\ elegido # None
                     /\ Val(elegido) \in DOMAIN mapa
                     /\ \A w \in DOMAIN mapa :
                           \/ mapa[Val(elegido)] > mapa[w]
                           \/ /\ mapa[Val(elegido)] = mapa[w]
                              /\ \E i \in con(campo, Val(elegido)) :
                                    \A j \in con(campo, w) : i <= j
        IN  /\ c.total_autos = Cardinality(DOMAIN autos)
            /\ bien_contado(c.distribucion_marcas, "marca")
            /\ bien_contado(c.distribucion_anios, "anio")
            /\ el_mayor(c.distribucion_marcas, "marca", c.marca_mas_popular)
            /\ el_mayor(c.distribucion_anios, "anio", c.anio_mas_comun)

\* C26: the monthly statistics asked without a year hold one bucket for each
\* (year, month) in which a stored sale is dated, with the number and the
\* price sum of the stored sales of that month, in ascending order of
\* (year, month), and the counts of the buckets add up to the number of
\* stored sales.
C26_EstadisticasMensuales ==
    (/\ respuesta.op = "obtener_estadisticas_mensuales"
     /\ respuesta.status = 200
     /\ respuesta.entrada.anio = None) =>
        LET r == respuesta.cuerpo.estadisticas_mensuales
            mes_de(i) == <<year(ventas[i].fecha_venta),
                           month(ventas[i].fecha_venta)>>
            meses == {mes_de(i) : i \in DOMAIN ventas}
            ventas_de(k) == {i \in DOMAIN ventas : mes_de(i) = <<r[k].anio, r[k].mes>>}
        IN  /\ {<<r[k].anio, r[k].mes>> : k \in DOMAIN r} = meses
            /\ Len(r) = Cardinality(meses)
            /\ \A k \in DOMAIN r :
                  /\ r[k].total_ventas = Cardinality(ventas_de(k))
                  /\ r[k].total_ingresos = total_ingresos(ventas, ventas_de(k))
            /\ \A k \in 1..(Len(r) - 1) :
                  \/ r[k].anio < r[k + 1].anio
                  \/ r[k].anio = r[k + 1].anio /\ r[k].mes < r[k + 1].mes
            /\ suma([k \in DOMAIN r |-> r[k].total_ventas])
                   = Cardinality(DOMAIN ventas)

\* C29: the total of an answered vehicle search and of an answered sale
\* search is the number of stored records that satisfy the filters supplied,
\* and has_next is true exactly when more than skip + limit stored records
\* satisfy them.
C29_TotalDeBusqueda ==
    (respuesta.op \in {"buscar_autos", "buscar_ventas"}
        /\ respuesta.status = 200) =>
        LET filtros == respuesta.entrada.filtros
            dado(campo) == filtros[campo] # None
            cumple_auto(fila) ==
                /\ dado("marca") =>
                       Contains(lower(fila.marca), lower(Val(filtros.marca)))
                /\ dado("modelo") =>
                       Contains(lower(fila.modelo), lower(Val(filtros.modelo)))
                /\ dado("anio_min") => fila.anio >= Val(filtros.anio_min)
                /\ dado("anio_max") => fila.anio <= Val(filtros.anio_max)
            cumple_venta(fila) ==
                /\ dado("nombre_comprador") =>
                       Contains(lower(fila.nombre_comprador),
                                lower(Val(filtros.nombre_comprador)))
                /\ dado("precio_min") => fila.precio >= Val(filtros.precio_min)
                /\ dado("precio_max") => fila.precio <= Val(filtros.precio_max)
                /\ dado("fecha_inicio") =>
                       fila.fecha_venta.instante
                           >= Val(filtros.fecha_inicio).instante
                /\ dado("fecha_fin") =>
                       fila.fecha_venta.instante
                           <= Val(filtros.fecha_fin).instante
                /\ dado("auto_id") => fila.auto_id = Val(filtros.auto_id)
            N == IF respuesta.op = "buscar_autos"
                 THEN Cardinality({i \in DOMAIN autos : cumple_auto(autos[i])})
                 ELSE Cardinality({i \in DOMAIN ventas :
                                      cumple_venta(ventas[i])})
        IN  /\ respuesta.cuerpo.total = N
            /\ respuesta.cuerpo.has_next
                   <=> (N > respuesta.entrada.skip + respuesta.entrada.limit)

\* C30: a client that has read the list of sales in consecutive pages
\* (skip = 0, k, 2k, ... with limit = k), nothing being written meanwhile,
\* has received every stored sale exactly once, also when stored sales share
\* a sale date.
C30_PaginasCompletas ==
    (proc.fin /\ respuesta = SinRespuesta) =>
        /\ Len(proc.recibidas) = Cardinality(DOMAIN ventas)
        /\ {proc.recibidas[j] : j \in DOMAIN proc.recibidas} = DOMAIN ventas

\* C28: while deletes of vehicles and creations and updates of sales run
\* concurrently, the checks and the commits of the requests interleaved in
\* any order, every stored sale references a stored vehicle.
C28_VentaConAuto ==
    \A v \in DOMAIN ventas : ventas[v].auto_id \in DOMAIN autos

\* A delete that found no sale of its vehicle was refused at commit, a sale
\* of the vehicle having been committed meanwhile.
C28_Testigo ==
    \E w \in Trabajadores :
        /\ proc[w].op = "eliminar_auto"
        /\ proc[w].pc = "fin"
        /\ proc[w].clase = "IntegrityError"
        /\ proc[w].id \in DOMAIN autos
        /\ \E v \in DOMAIN ventas : ventas[v].auto_id = proc[w].id

\* C24: every session acquired for a request, through the dependency
\* get_session or by get_general_stats itself, is eventually closed, whether
\* the request succeeds or fails, and no session is open once its request is
\* completed.
C24_SesionesCerradas ==
    /\ \A w \in {1, 2} :
          (proc[w].sesion = "abierta") ~> (proc[w].sesion = "cerrada")
    /\ [](\A w \in {1, 2} :
             proc[w].pc = "completada" => proc[w].sesion = "cerrada")

\* get_general_stats failed, its request is completed and its session is
\* closed, the generator still being suspended.
C24_Testigo ==
    \E w \in {1, 2} :
        /\ proc[w].ruta = "get_general_stats"
        /\ proc[w].excepcion
        /\ proc[w].pc = "completada"
        /\ proc[w].gen = "suspendido"
        /\ proc[w].sesion = "cerrada"

====
